---- MODULE Spec2Model ----
(***************************************************************************)
(* State-machine model of minuteos/lib-nvram: a log-structured record      *)
(* store on NOR-flash-like memory (blocks / pages / records).              *)
(*                                                                         *)
(* The flash is a flat array of 32-bit words addressed by BYTE address     *)
(* (address 0 = first byte of the managed area).  Words are held as signed *)
(* 32-bit integers, so the erased word 0xFFFFFFFF (~0u) is -1.             *)
(* The build modelled is the host one: single-word writes                  *)
(* (NVRAM_FLASH_DOUBLE_WRITE off, WriteAlignment = 4).                     *)
(***************************************************************************)
EXTENDS Integers, Sequences, FiniteSets, TLC

(***************************************************************************)
(* Geometry (Layout.h).  The medium is the default layout scaled down by   *)
(* 32: erasable blocks of 128 bytes holding four pages with a 20-byte      *)
(* payload each and 8 bytes of tail padding.                               *)
(***************************************************************************)
NumBlocks == 2
BlockSize == 128
PagesPerBlock == 4
PagesKeptFree == 4
WriteAlignment == 4
BlockHeader == 8
PageHeader == 8

RequiredAligned(size) ==
    ((size + WriteAlignment - 1) \div WriteAlignment) * WriteAlignment

PageSize ==
    (((BlockSize - BlockHeader) \div PagesPerBlock) \div WriteAlignment) * WriteAlignment

PagePayload == PageSize - PageHeader

BlockPadding == BlockSize - BlockHeader - PagesPerBlock * PageSize

AllOnes == -1            \* ~0u
Magic == 1297239630      \* ID("NVRM") = 0x4D52564E
NULL == -1               \* null pointer / invalid span pointer

FlashWords == (NumBlocks * BlockSize) \div 4

(***************************************************************************)
(* 32-bit words                                                            *)
(***************************************************************************)
RECURSIVE BitAnd(_, _)
BitAnd(a, b) ==
    IF a = 0 \/ b = 0 THEN 0
    ELSE IF a = -1 THEN b
    ELSE IF b = -1 THEN a
    ELSE IF a = b THEN a
    ELSE (a % 2) * (b % 2) + 2 * BitAnd(a \div 2, b \div 2)

\* signed 16-bit difference of two page sequence numbers
OVF_DIFF(a, b) ==
    LET d == (a - b) % 65536 IN IF d >= 32768 THEN d - 65536 ELSE d
OVF_LT(a, b) == OVF_DIFF(a, b) < 0
OVF_GT(a, b) == OVF_DIFF(a, b) > 0

(***************************************************************************)
(* Flash driver (host emulation).  A machine state m carries the flash     *)
(* image m.f and m.fuel, the number of word programming steps still        *)
(* carried out before power is lost (-1: power stays on).  Once fuel is 0  *)
(* the processor is dead: nothing is written any more.  m.fault is the     *)
(* number of the word programming step that fails transiently (-1: none):  *)
(* that step leaves the word as m.junk says, so that the read-back of      *)
(* Flash::WriteWord differs from the word written.                         *)
(***************************************************************************)
WordAt(f, ptr) == f[ptr \div 4 + 1]

Dead(m) == m.fuel = 0

\* Manager::EraseBlocks is not running (no block, no saved generation)
NoErase == [block |-> NULL, gen |-> 0, phase |-> "idle"]

\* what a programming step that fails leaves in a word holding old: nothing programmed,
\* only the low half-word programmed, or one bit too many cleared
Junk(kind, old, word) ==
    CASE kind = "none" -> old
      [] kind = "half" -> IF word >= 0 /\ word < 65536 /\ old = AllOnes
                          THEN word - 65536 ELSE old
      [] OTHER -> IF word % 2 = 1 THEN word - 1 ELSE old

Program(m, ptr, word) ==
    IF Dead(m) THEN m
    ELSE [m EXCEPT !.f[ptr \div 4 + 1] =
                       IF m.fault = 1 THEN Junk(m.junk, WordAt(m.f, ptr), word) ELSE word,
                   !.fuel = IF @ > 0 THEN @ - 1 ELSE @,
                   !.fault = IF @ > 0 THEN @ - 1 ELSE @]

\* Flash::WriteWord: *ptr &= word; the caller tests WriteOk afterwards
WriteWord(m, ptr, word) == Program(m, ptr, BitAnd(WordAt(m.f, ptr), word))

WriteOk(m, ptr, word) == ~Dead(m) /\ WordAt(m.f, ptr) = word

\* Flash::ShredWord: *ptr = 0
ShredWord(m, ptr) == Program(m, ptr, 0)

\* Flash::Write: every byte is AND-ed in, in address order; always reports success.
\* data is a sequence of words; a trailing partial word carries 0xFF in its unused bytes.
RECURSIVE FlashWrite(_, _, _)
FlashWrite(m, ptr, data) ==
    IF data = <<>> \/ Dead(m) THEN m
    ELSE FlashWrite(WriteWord(m, ptr, Head(data)), ptr + 4, Tail(data))

\* Flash::Erase of one erasable block
EraseRange(f, base) ==
    [i \in 1..FlashWords |->
        IF i - 1 >= base \div 4 /\ i - 1 < (base + BlockSize) \div 4 THEN AllOnes ELSE f[i]]

(***************************************************************************)
(* Block (Block.h, Block.cpp)                                              *)
(***************************************************************************)
BlockAddr(b) == b * BlockSize
BlockFromPtr(ptr) == (ptr \div BlockSize) * BlockSize
MagicOf(f, blk) == WordAt(f, blk)
GenerationOf(f, blk) == WordAt(f, blk + 4)
BlockBegin(blk) == blk + BlockHeader
BlockEnd(blk) == blk + BlockHeader + PagesPerBlock * PageSize
blkStart == 0
blkEnd == NumBlocks * BlockSize

BlockIsValid(f, blk) == GenerationOf(f, blk) # 0

BlockIsEmpty(f, blk) ==
    \A i \in 0..(BlockSize \div 4 - 1) : WordAt(f, blk + 4 * i) = AllOnes

\* a faulty Format that writes the magic and leaves the generation alone
BlockFormat_MagicOnly(m, blk, gen) == [m |-> WriteWord(m, blk, Magic), ok |-> TRUE]

\* Block::Format: [m, ok]
BlockFormat(m, blk, gen) ==
    LET Failed(mx) == [m |-> ShredWord(ShredWord(mx, blk + 4), blk), ok |-> FALSE]
        GenWritten(m2) ==
            IF WriteOk(m2, blk + 4, gen) THEN [m |-> m2, ok |-> TRUE] ELSE Failed(m2)
        MagicWritten(m1) ==
            IF WriteOk(m1, blk, Magic) THEN GenWritten(WriteWord(m1, blk + 4, gen))
            ELSE Failed(m1)
    IN  MagicWritten(WriteWord(m, blk, Magic))

(***************************************************************************)
(* Page header (Page.h)                                                    *)
(***************************************************************************)
PageIdOf(f, p) == WordAt(f, p)
Sequence(f, p) == WordAt(f, p + 4) % 65536
RecordSizeOf(f, p) == (WordAt(f, p + 4) \div 65536) % 65536
PageData(p) == p + PageHeader
PageDataEnd(p) == p + PageHeader + PagePayload
PageIsEmpty(f, p) == PageIdOf(f, p) = AllOnes
PageIsErasable(f, p) == PageIdOf(f, p) = 0
PageIsValid(f, p) == ~PageIsEmpty(f, p) /\ ~PageIsErasable(f, p)

\* Page::FromPtr / FromPtrInline
PageFromPtr(ptr) ==
    LET firstPageInBlock == BlockFromPtr(ptr) + BlockHeader
    IN  ptr - ((ptr - firstPageInBlock) % PageSize)

\* all page slots of the managed area, and all blocks
AllBlocks == { BlockAddr(b) : b \in 0..(NumBlocks - 1) }
PagesOf(blk) == { BlockBegin(blk) + i * PageSize : i \in 0..(PagesPerBlock - 1) }
AllPages == UNION { PagesOf(blk) : blk \in AllBlocks }

(***************************************************************************)
(* Manager: block and page allocation (Manager.cpp)                        *)
(***************************************************************************)
\* Manager::RunCollector
RunCollector(m) ==
    [m EXCEPT !.rc = @ + 1, !.collecting = TRUE,
              !.spawned = IF m.collecting THEN @ ELSE @ + 1,
              !.tasks = IF m.collecting THEN @ ELSE @ + 1]

\* Manager::NewBlock: [m, blk]
RECURSIVE NewBlockFrom(_, _)
NewBlockFrom(m, blk) ==
    IF blk < blkStart \/ Dead(m) THEN [m |-> m, blk |-> NULL]
    ELSE IF BlockIsEmpty(m.f, blk)
    THEN LET Formatted(r) ==
                 IF r.ok
                 THEN [m |-> [r.m EXCEPT !.blkFirst = IF @ > blk THEN blk ELSE @],
                       blk |-> blk]
                 ELSE NewBlockFrom(r.m, blk - BlockSize)
         IN  Formatted(BlockFormat(m, blk, 1))
    ELSE NewBlockFrom(m, blk - BlockSize)

\* a faulty NewBlock that never looks at the highest block
NewBlock_BelowTop(m) == NewBlockFrom(m, blkEnd - 2 * BlockSize)

NewBlock(m) == NewBlockFrom(m, blkEnd - BlockSize)

\* first pass of Manager::NewPage over the pages of one block: [seq, free, brk]
RECURSIVE NewPageScanPages(_, _, _, _, _, _)
NewPageScanPages(f, id, p, end, seq, free) ==
    IF p = end THEN [seq |-> seq, free |-> free]
    ELSE IF PageIdOf(f, p) = id
    THEN NewPageScanPages(f, id, p + PageSize, end,
            IF seq = AllOnes \/ OVF_LT(seq % 65536, Sequence(f, p)) THEN Sequence(f, p) ELSE seq,
            free)
    ELSE IF free = NULL /\ PageIsEmpty(f, p)
    THEN [seq |-> seq, free |-> p]
    ELSE NewPageScanPages(f, id, p + PageSize, end, seq, free)

RECURSIVE NewPageScan(_, _, _, _, _)
NewPageScan(f, id, blk, seq, free) ==
    IF blk >= blkEnd THEN [seq |-> seq, free |-> free]
    ELSE IF ~BlockIsValid(f, blk) THEN NewPageScan(f, id, blk + BlockSize, seq, free)
    ELSE LET Scanned(r) == NewPageScan(f, id, blk + BlockSize, r.seq, r.free)
         IN  Scanned(NewPageScanPages(f, id, BlockBegin(blk), BlockEnd(blk), seq, free))

\* after a failed header write: the next empty page of the same block, or the block's end
RECURSIVE NextFreeInBlock(_, _)
NextFreeInBlock(f, p) ==
    IF p = BlockEnd(BlockFromPtr(p)) THEN p
    ELSE IF PageIsEmpty(f, p) THEN p
    ELSE NextFreeInBlock(f, p + PageSize)

\* the rescan "for (auto& b : Blocks(Block::FromPtr(free) + 1))": no "!free" guard,
\* every valid block overwrites free with its first empty page
RECURSIVE FirstEmptyPage(_, _, _)
FirstEmptyPage(f, p, end) ==
    IF p = end THEN NULL
    ELSE IF PageIsEmpty(f, p) THEN p
    ELSE FirstEmptyPage(f, p + PageSize, end)

RECURSIVE RescanFree(_, _, _)
RescanFree(f, blk, free) ==
    IF blk >= blkEnd THEN free
    ELSE IF ~BlockIsValid(f, blk) THEN RescanFree(f, blk + BlockSize, free)
    ELSE LET Found(e) == RescanFree(f, blk + BlockSize, IF e = NULL THEN free ELSE e)
         IN  Found(FirstEmptyPage(f, BlockBegin(blk), BlockEnd(blk)))

\* allocation loop of Manager::NewPage: [m, page]
RECURSIVE NewPageAlloc(_, _, _, _)
NewPageAlloc(m, id, w0, free) ==
    LET \* the page at fr could not be formatted and has been shredded (machine m3)
        Shredded(m3, fr) ==
            LET Continue(nx) ==
                    IF nx # BlockEnd(BlockFromPtr(fr))
                    THEN NewPageAlloc(m3, id, w0, nx)
                    ELSE \* Blocks(Block::FromPtr(NULL) + 1): walks memory from address
                         \* BlockSize up to blkEnd; either the walk faults, or it gets
                         \* through and covers the managed area
                         IF m3.ub = "fault"
                         THEN [m |-> [m3 EXCEPT !.fuel = 0], page |-> NULL]
                         ELSE NewPageAlloc(m3, id, w0, RescanFree(m3.f, blkStart, NULL))
            IN  Continue(NextFreeInBlock(m3.f, fr + PageSize))
        IdWritten(m2, fr) ==
            IF WriteOk(m2, fr, id)
            THEN [m |-> RunCollector([m2 EXCEPT !.pagesAvailable = @ - 1]), page |-> fr]
            ELSE Shredded(ShredWord(m2, fr), fr)
        SeqWritten(m1, fr) ==
            IF WriteOk(m1, fr + 4, w0) THEN IdWritten(WriteWord(m1, fr, id), fr)
            ELSE Shredded(ShredWord(m1, fr), fr)
        Prepare(m0, fr) == SeqWritten(WriteWord(m0, fr + 4, w0), fr)
        WithBlock(nb) ==
            IF nb.blk = NULL THEN [m |-> nb.m, page |-> NULL]
            ELSE Prepare(nb.m, BlockBegin(nb.blk))
    IN  IF Dead(m) THEN [m |-> m, page |-> NULL]
        ELSE IF free = NULL THEN WithBlock(NewBlock(m))
        ELSE Prepare(m, free)

\* a faulty NewPage that takes the first sequence number above those in use that is odd
NewPage_OddSeq(m, id, recordSize) ==
    LET Place(sc) ==
            NewPageAlloc(m, id,
                ((IF sc.seq = AllOnes THEN 1 ELSE sc.seq + 1 + (sc.seq % 2)) % 65536)
                    + recordSize * 65536,
                sc.free)
    IN  Place(NewPageScan(m.f, id, m.blkFirst, AllOnes, NULL))

\* Manager::NewPage: [m, page]
NewPage(m, id, recordSize) ==
    LET Place(sc) ==
            NewPageAlloc(m, id,
                ((IF sc.seq = AllOnes THEN 1 ELSE sc.seq + 1) % 65536) + recordSize * 65536,
                sc.free)
    IN  Place(NewPageScan(m.f, id, m.blkFirst, AllOnes, NULL))

(***************************************************************************)
(* Page enumeration (Page.cpp)                                             *)
(***************************************************************************)
\* the inner "for (;;) { blk++; ... }" of FastEnum: next valid block or NULL
RECURSIVE NextValidBlock(_, _)
NextValidBlock(f, blk) ==
    IF blk + BlockSize >= blkEnd THEN NULL
    ELSE IF BlockIsValid(f, blk + BlockSize) THEN blk + BlockSize
    ELSE NextValidBlock(f, blk + BlockSize)

\* Page::FastEnum
RECURSIVE FastEnum(_, _, _, _)
FastEnum(f, blk, p, id) ==
    IF p # BlockEnd(blk) /\ PageIdOf(f, p) # AllOnes
    THEN IF PageIdOf(f, p) = id THEN p ELSE FastEnum(f, blk, p + PageSize, id)
    ELSE LET Into(nb) == IF nb = NULL THEN NULL ELSE FastEnum(f, nb, BlockBegin(nb), id)
         IN  Into(NextValidBlock(f, blk))

\* Page::First
PageFirst(f, bf, id) ==
    IF bf = blkEnd THEN NULL ELSE FastEnum(f, bf, BlockBegin(bf), id)

\* Page::Next / UnorderedNextImpl
PageNext(f, p) == FastEnum(f, BlockFromPtr(p), p + PageSize, PageIdOf(f, p))

\* the pages visited by First / Next, in visiting order
RECURSIVE PageChain(_, _, _)
PageChain(f, p, id) ==
    IF p = NULL THEN <<>>
    ELSE <<p>> \o PageChain(f, FastEnum(f, BlockFromPtr(p), p + PageSize, id), id)

UnorderedPages(f, bf, id) == PageChain(f, PageFirst(f, bf, id), id)

\* Page::Scan(id): [newest, oldest]
RECURSIVE ScanFirstLoop(_, _, _, _)
ScanFirstLoop(f, ps, oldest, newest) ==
    IF ps = <<>> THEN [newest |-> newest, oldest |-> oldest]
    ELSE LET p == Head(ps)
         IN  ScanFirstLoop(f, Tail(ps),
                IF OVF_GT(Sequence(f, oldest), Sequence(f, p)) THEN p ELSE oldest,
                IF OVF_LT(Sequence(f, newest), Sequence(f, p)) THEN p ELSE newest)

ScanFirst(f, bf, id) ==
    LET Over(ps) ==
            IF ps = <<>> THEN [newest |-> NULL, oldest |-> NULL]
            ELSE ScanFirstLoop(f, Tail(ps), Head(ps), Head(ps))
    IN  Over(UnorderedPages(f, bf, id))

\* Page::Scan(id, seq): [older, newer]
RECURSIVE ScanNextLoop(_, _, _, _, _)
ScanNextLoop(f, ps, seq, older, newer) ==
    IF ps = <<>> THEN [older |-> older, newer |-> newer]
    ELSE LET p == Head(ps)
             s == Sequence(f, p)
         IN  ScanNextLoop(f, Tail(ps), seq,
                IF OVF_LT(s, seq) /\ (older = NULL \/ OVF_GT(s, Sequence(f, older)))
                    THEN p ELSE older,
                IF OVF_GT(s, seq) /\ (newer = NULL \/ OVF_LT(s, Sequence(f, newer)))
                    THEN p ELSE newer)

ScanNext(f, bf, id, seq) == ScanNextLoop(f, UnorderedPages(f, bf, id), seq, NULL, NULL)

\* a faulty OldestNext that goes on in address order
OldestNext_Unordered(f, bf, p) == PageNext(f, p)

\* Page.h: NewestFirst / NewestNext / OldestFirst / OldestNext
NewestFirst(f, bf, id) == ScanFirst(f, bf, id).newest
OldestFirst(f, bf, id) == ScanFirst(f, bf, id).oldest
NewestNext(f, bf, p) == ScanNext(f, bf, PageIdOf(f, p), Sequence(f, p)).older
OldestNext(f, bf, p) == ScanNext(f, bf, PageIdOf(f, p), Sequence(f, p)).newer

(***************************************************************************)
(* Record search (Page.Search.cpp).  A span is [ptr, len]; the invalid     *)
(* span has ptr = NULL.                                                    *)
(***************************************************************************)
NoSpan == [ptr |-> NULL, len |-> 0]
Span(ptr, len) == [ptr |-> ptr, len |-> len]

VarGetLen(f, rec) == WordAt(f, rec - 4)
VarSkipLen(payloadLen) == RequiredAligned(payloadLen + 4)
VarNext(f, rec) == rec + VarSkipLen(VarGetLen(f, rec))
FirstWord(f, rec) == WordAt(f, rec)

\* the nextPage callback: UnorderedNextImpl, OldestNextImpl, NewestNextImpl or NULL
NextPageBy(f, bf, mode, p) ==
    CASE mode = "unordered" -> PageNext(f, p)
      [] mode = "oldest" -> OldestNext(f, bf, p)
      [] mode = "newest" -> NewestNext(f, bf, p)
      [] OTHER -> NULL

\* a faulty fixed-record loop that takes a free slot for a record
ForwardFixed_FreeSlots(f, rec, recordSize, pe, firstWord) ==
    IF ~(rec + recordSize < pe) THEN NoSpan
    ELSE IF FirstWord(f, rec) # 0 /\ (firstWord = 0 \/ FirstWord(f, rec) = firstWord)
    THEN Span(rec, recordSize)
    ELSE NoSpan

\* fixed-record loop of FindForwardNextImpl on one page
RECURSIVE ForwardFixed(_, _, _, _, _)
ForwardFixed(f, rec, recordSize, pe, firstWord) ==
    IF ~(rec + recordSize < pe) THEN NoSpan
    ELSE LET first == FirstWord(f, rec)
         IN  IF first # 0 /\ first # AllOnes /\ (firstWord = 0 \/ first = firstWord)
             THEN Span(rec, recordSize)
             ELSE ForwardFixed(f, rec + recordSize, recordSize, pe, firstWord)

\* variable-record loop of FindForwardNextImpl on one page
RECURSIVE ForwardVar(_, _, _, _)
ForwardVar(f, rec, pe, firstWord) ==
    IF ~(rec < pe) THEN NoSpan
    ELSE LET len == VarGetLen(f, rec)
         IN  IF len # 0 /\ len # AllOnes /\ FirstWord(f, rec) # 0
                /\ (firstWord = 0 \/ FirstWord(f, rec) = firstWord)
             THEN Span(rec, len)
             ELSE ForwardVar(f, rec + VarSkipLen(len), pe, firstWord)

\* Page::FindForwardNextImpl
RECURSIVE FindForwardNextImpl(_, _, _, _, _, _)
FindForwardNextImpl(f, bf, p, rec, firstWord, mode) ==
    LET pe == PageDataEnd(p)
        recordSize == RecordSizeOf(f, p)
        TryNext(np) ==
            IF np = NULL THEN NoSpan
            ELSE FindForwardNextImpl(f, bf, np, NULL, firstWord, mode)
        OnPage(found) ==
            IF found.ptr # NULL THEN found ELSE TryNext(NextPageBy(f, bf, mode, p))
    IN  IF recordSize # 0
        THEN OnPage(ForwardFixed(f, IF rec # NULL THEN rec + recordSize ELSE PageData(p),
                                 recordSize, pe, firstWord))
        ELSE OnPage(ForwardVar(f, IF rec # NULL THEN VarNext(f, rec) ELSE PageData(p) + 4,
                               pe, firstWord))

\* fixed-record loop of FindNewestNextImpl on one page: the last match before stop
RECURSIVE NewestFixed(_, _, _, _, _, _, _)
NewestFixed(f, rec, recordSize, pe, stop, firstWord, found) ==
    IF ~(rec + recordSize < pe /\ rec # stop) THEN found
    ELSE LET first == FirstWord(f, rec)
         IN  NewestFixed(f, rec + recordSize, recordSize, pe, stop, firstWord,
                IF first # 0 /\ first # AllOnes /\ (firstWord = 0 \/ first = firstWord)
                THEN rec ELSE found)

\* variable-record loop of FindNewestNextImpl on one page
RECURSIVE NewestVar(_, _, _, _, _, _)
NewestVar(f, rec, pe, stop, firstWord, found) ==
    IF ~(rec < pe /\ rec # stop) THEN found
    ELSE LET len == VarGetLen(f, rec)
         IN  NewestVar(f, rec + VarSkipLen(len), pe, stop, firstWord,
                IF len # 0 /\ len # AllOnes /\ FirstWord(f, rec) # 0
                   /\ (firstWord = 0 \/ FirstWord(f, rec) = firstWord)
                THEN rec ELSE found)

\* Page::FindNewestNextImpl(p, stop, firstWord, nextPage)
RECURSIVE FindNewestNextImpl(_, _, _, _, _, _)
FindNewestNextImpl(f, bf, p, stop, firstWord, mode) ==
    LET pe == PageDataEnd(p)
        recordSize == RecordSizeOf(f, p)
        TryNext(np) ==
            IF np = NULL THEN NoSpan
            ELSE FindNewestNextImpl(f, bf, np, stop, firstWord, mode)
        OnPage(found) ==
            IF found # NULL
            THEN Span(found, IF recordSize # 0 THEN recordSize ELSE VarGetLen(f, found))
            ELSE TryNext(NextPageBy(f, bf, mode, p))
    IN  IF recordSize # 0
        THEN OnPage(NewestFixed(f, PageData(p), recordSize, pe, stop, firstWord, NULL))
        ELSE OnPage(NewestVar(f, PageData(p) + 4, pe, stop, firstWord, NULL))

\* the public searches
FindUnorderedFirst(f, bf, id, firstWord) ==
    LET From(p) ==
            IF p = NULL THEN NoSpan
            ELSE FindForwardNextImpl(f, bf, p, NULL, firstWord, "unordered")
    IN  From(PageFirst(f, bf, id))

FindUnorderedNext(f, bf, rec, firstWord) ==
    FindForwardNextImpl(f, bf, PageFromPtr(rec), rec, firstWord, "unordered")

FindNewestFirst(f, bf, id, firstWord) ==
    LET From(p) ==
            IF p = NULL THEN NoSpan
            ELSE FindNewestNextImpl(f, bf, p, NULL, firstWord, "newest")
    IN  From(NewestFirst(f, bf, id))

FindNewestNext(f, bf, stop, firstWord) ==
    FindNewestNextImpl(f, bf, PageFromPtr(stop), stop, firstWord, "newest")

FindOldestFirst(f, bf, id, firstWord) ==
    LET From(p) ==
            IF p = NULL THEN NoSpan
            ELSE FindForwardNextImpl(f, bf, p, NULL, firstWord, "oldest")
    IN  From(OldestFirst(f, bf, id))

FindOldestNext(f, bf, rec, firstWord) ==
    FindForwardNextImpl(f, bf, PageFromPtr(rec), rec, firstWord, "oldest")

(***************************************************************************)
(* Registrations (Manager.h, Manager.cpp) and the objects of the callers   *)
(* that notifiers act on.  m.reg holds Manager::collectors and             *)
(* Manager::notifiers; m.cl holds one Settings object with one Setting:    *)
(* Settings::version (unsigned), Setting::version (uint16_t),              *)
(* Setting::value, Setting::notify, and calls, the number of Notify calls  *)
(* for the tracked id since the version tracker was registered.            *)
(***************************************************************************)
NoRegistry == [collectors |-> <<>>, notifiers |-> <<>>]
NoClient ==
    [version |-> AllOnes, ver |-> 0, value |-> [ptr |-> NULL, len |-> 0], notify |-> FALSE,
     tracked |-> 0, calls |-> 0]

\* IncrementVersion: (*pVersion)++ on an unsigned (kept as a signed 32-bit integer)
IncrementVersion(cl) ==
    [cl EXCEPT !.version = IF @ = 2147483647 THEN -2147483647 - 1 ELSE @ + 1]

\* the loop of Manager::Notify over the notifiers from the i-th on; every registered
\* notifier is the IncrementVersion delegate of the Settings object
RECURSIVE NotifyFrom(_, _, _, _)
NotifyFrom(cl, notifiers, i, id) ==
    IF i > Len(notifiers)
    THEN [cl EXCEPT !.calls = IF cl.tracked = id THEN @ + 1 ELSE @]
    ELSE NotifyFrom(IF notifiers[i].key = id THEN IncrementVersion(cl) ELSE cl,
                    notifiers, i + 1, id)

(***************************************************************************)
(* Record storage (Page.Storage.cpp, single-word write mode)               *)
(***************************************************************************)
\* Manager::Notify: the model records which ids were notified, in order, and the flash
\* each notifier saw when it ran
Notify(m, id) ==
    IF Dead(m) THEN m
    ELSE [m EXCEPT !.ntf = Append(@, id), !.seen = Append(@, m.f),
                   !.cl = NotifyFrom(@, m.reg.notifiers, 1, id)]

\* Page::FindFree
RECURSIVE FindFreeFixed(_, _, _, _)
FindFreeFixed(f, rec, recordSize, pe) ==
    IF ~(rec + recordSize <= pe) THEN NULL
    ELSE IF WordAt(f, rec) = AllOnes THEN rec
    ELSE FindFreeFixed(f, rec + recordSize, recordSize, pe)

RECURSIVE FindFreeVar(_, _, _)
FindFreeVar(f, rec, pe) ==
    IF ~(rec < pe) THEN NULL
    ELSE IF VarGetLen(f, rec) = AllOnes THEN rec
    ELSE FindFreeVar(f, rec + VarSkipLen(VarGetLen(f, rec)), pe)

FindFree(f, p) ==
    IF RecordSizeOf(f, p) # 0
    THEN FindFreeFixed(f, PageData(p), RecordSizeOf(f, p), PageDataEnd(p))
    ELSE FindFreeVar(f, PageData(p) + 4, PageDataEnd(p))

\* Page::ShredRecord (single-word mode)
ShredRecord(m, ptr) == ShredWord(m, ptr)

\* Page::CompareAge
CompareAge(f, rec1, rec2) ==
    LET p1 == PageFromPtr(rec1)
        p2 == PageFromPtr(rec2)
    IN  IF p1 # p2 THEN OVF_DIFF(Sequence(f, p1), Sequence(f, p2)) ELSE rec1 - rec2

\* Flash::Write, which took the machine from m0 to m1, returned false: the host driver
\* never does; a driver that verifies what it programmed (m0.reports) does when one of
\* its programming steps failed
WriteReported(m0, m1) == ~Dead(m1) /\ m0.reports /\ m0.fault > 0 /\ m1.fault = 0

\* a write of WriteImpl reported failure for the record slot at ptr, whose leading word
\* (the length word or the first word) is at lead (logged)
Failed(m, ptr, lead) ==
    IF Dead(m) THEN m ELSE [m EXCEPT !.failed = Append(@, [ptr |-> ptr, lead |-> lead])]

\* the length-reservation loop of WriteImpl for variable records: [m, free]
RECURSIVE ReserveLength(_, _, _, _)
ReserveLength(m, free, totalLength, end) ==
    LET Written(m1) ==
            IF WriteOk(m1, free - 4, totalLength) THEN [m |-> m1, free |-> free]
            ELSE ReserveLength(ShredWord(Failed(m1, free, free - 4), free - 4), free + 4,
                               totalLength, end)
    IN  IF Dead(m) \/ free + RequiredAligned(totalLength) > end
        THEN [m |-> m, free |-> NULL]
        ELSE Written(WriteWord(m, free - 4, totalLength))

\* a faulty WriteImpl that leaves the slot as it is when the first word could not be
\* written
RECURSIVE WriteImplLoop_NoShred(_, _, _, _, _, _)
WriteImplLoop_NoShred(m, p, free, firstWord, restOfData, totalLength) ==
    LET recordSize == RecordSizeOf(m.f, p)
        end == PageDataEnd(p)
        FirstWritten(m2, fr) ==
            IF WriteOk(m2, fr, firstWord) THEN [m |-> m2, res |-> Span(fr, totalLength)]
            ELSE WriteImplLoop_NoShred(Failed(m2, fr, fr), p,
                    fr + (IF recordSize # 0 THEN recordSize ELSE VarSkipLen(totalLength)),
                    firstWord, restOfData, totalLength)
        RestWritten(m0, m1, fr) ==
            IF WriteReported(m0, m1)
            THEN WriteImplLoop_NoShred(Failed(m1, fr, fr), p,
                    fr + (IF recordSize # 0 THEN recordSize ELSE VarSkipLen(totalLength)),
                    firstWord, restOfData, totalLength)
            ELSE FirstWritten(WriteWord(m1, fr, firstWord), fr)
        Reserved(rv) ==
            IF rv.free = NULL THEN [m |-> rv.m, res |-> NoSpan]
            ELSE RestWritten(rv.m,
                             IF totalLength <= 4 THEN rv.m
                             ELSE FlashWrite(rv.m, rv.free + 4, restOfData), rv.free)
    IN  IF Dead(m) THEN [m |-> m, res |-> NoSpan]
        ELSE IF recordSize # 0
        THEN Reserved([m |-> m, free |-> IF free + recordSize > end THEN NULL ELSE free])
        ELSE Reserved(ReserveLength(m, free, totalLength, end))

\* Page::WriteImpl: [m, res]; p is the page of the slot the call started at
RECURSIVE WriteImplLoop(_, _, _, _, _, _)
WriteImplLoop(m, p, free, firstWord, restOfData, totalLength) ==
    LET recordSize == RecordSizeOf(m.f, p)
        end == PageDataEnd(p)
        FirstWritten(m2, fr) ==
            IF WriteOk(m2, fr, firstWord) THEN [m |-> m2, res |-> Span(fr, totalLength)]
            ELSE WriteImplLoop(ShredRecord(Failed(m2, fr, fr), fr), p,
                    fr + (IF recordSize # 0 THEN recordSize ELSE VarSkipLen(totalLength)),
                    firstWord, restOfData, totalLength)
        RestWritten(m0, m1, fr) ==
            IF WriteReported(m0, m1)
            THEN WriteImplLoop(ShredRecord(Failed(m1, fr, fr), fr), p,
                    fr + (IF recordSize # 0 THEN recordSize ELSE VarSkipLen(totalLength)),
                    firstWord, restOfData, totalLength)
            ELSE FirstWritten(WriteWord(m1, fr, firstWord), fr)
        Reserved(rv) ==
            IF rv.free = NULL THEN [m |-> rv.m, res |-> NoSpan]
            ELSE RestWritten(rv.m,
                             IF totalLength <= 4 THEN rv.m
                             ELSE FlashWrite(rv.m, rv.free + 4, restOfData), rv.free)
    IN  IF Dead(m) THEN [m |-> m, res |-> NoSpan]
        ELSE IF recordSize # 0
        THEN Reserved([m |-> m, free |-> IF free + recordSize > end THEN NULL ELSE free])
        ELSE Reserved(ReserveLength(m, free, totalLength, end))

WriteImpl(m, free, firstWord, restOfData, totalLength) ==
    WriteImplLoop(m, PageFromPtr(free), free, firstWord, restOfData, totalLength)

\* Page::AddImpl: [m, res]
RECURSIVE AddImplLoop(_, _, _, _, _, _, _, _, _)
AddImplLoop(m, page, p, free, firstWord, restOfData, totalLength, var, noNotify) ==
    LET requiredLength == RequiredAligned(totalLength)
        needNew == \/ free = NULL
                   \/ free + requiredLength > PageData(p) + PagePayload
                   \/ (var /\ RecordSizeOf(m.f, p) # 0)
                   \/ (~var /\ RecordSizeOf(m.f, p) # 0 /\ requiredLength > RecordSizeOf(m.f, p))
        Written(w, pg) ==
            IF w.res.ptr # NULL
            THEN [m |-> IF noNotify THEN w.m ELSE Notify(w.m, page), res |-> w.res]
            ELSE AddImplLoop(w.m, page, pg, NULL, firstWord, restOfData,
                             totalLength, var, noNotify)
        Allocated(np) ==
            IF np.page = NULL THEN [m |-> np.m, res |-> NoSpan]
            ELSE Written(WriteImpl(np.m, PageData(np.page) + (IF var THEN 4 ELSE 0),
                                   firstWord, restOfData, totalLength), np.page)
    IN  IF Dead(m) THEN [m |-> m, res |-> NoSpan]
        ELSE IF needNew THEN Allocated(NewPage(m, page, IF var THEN 0 ELSE requiredLength))
        ELSE Written(WriteImpl(m, free, firstWord, restOfData, totalLength), p)

AddImpl(m, page, firstWord, restOfData, totalLength, var, noNotify) ==
    LET On(p) ==
            AddImplLoop(m, page, p, IF p # NULL THEN FindFree(m.f, p) ELSE NULL,
                        firstWord, restOfData, totalLength, var, noNotify)
    IN  On(NewestFirst(m.f, m.blkFirst, page))

\* memcmp(restOfData, rec + 4, n) = 0 over n bytes
RECURSIVE BytesEqual(_, _, _, _)
BytesEqual(f, ptr, data, n) ==
    IF n <= 0 THEN TRUE
    ELSE IF n >= 4
    THEN WordAt(f, ptr) = Head(data) /\ BytesEqual(f, ptr + 4, Tail(data), n - 4)
    ELSE WordAt(f, ptr) % (256 ^ n) = Head(data) % (256 ^ n)

\* the duplicate-removal loop of ReplaceImpl: [m, rec]
RECURSIVE ReplaceKeepNewest(_, _, _)
ReplaceKeepNewest(m, rec, firstWord) ==
    LET Against(next) ==
            IF next.ptr = NULL THEN [m |-> m, rec |-> rec]
            ELSE IF CompareAge(m.f, rec.ptr, next.ptr) < 0
            THEN ReplaceKeepNewest(ShredRecord(m, rec.ptr), next, firstWord)
            ELSE ReplaceKeepNewest(ShredRecord(m, next.ptr), rec, firstWord)
    IN  IF Dead(m) THEN [m |-> m, rec |-> rec]
        ELSE Against(FindUnorderedNext(m.f, m.blkFirst, rec.ptr, firstWord))

\* Page::OffsetPackedData: the span without its first offset bytes
OffsetPackedData(res, offset) ==
    IF res.ptr # NULL THEN Span(res.ptr + offset, res.len - offset) ELSE res

\* Page::ReplaceImpl: [m, res]
ReplaceImpl(m, page, firstWord, restOfData, totalLength, var) ==
    LET Added(a, rec) ==
            [m |-> Notify(IF a.res.ptr # NULL THEN ShredRecord(a.m, rec.ptr) ELSE a.m, page),
             res |-> a.res]
        Kept(k) ==
            IF Dead(k.m) THEN [m |-> k.m, res |-> NoSpan]
            ELSE IF /\ (k.rec.len = totalLength \/ (~var /\ k.rec.len > totalLength))
                    /\ (totalLength <= 4
                        \/ BytesEqual(k.m.f, k.rec.ptr + 4, restOfData, totalLength - 4))
            THEN [m |-> k.m, res |-> k.rec]
            ELSE Added(AddImpl(k.m, page, firstWord, restOfData, totalLength, var, TRUE),
                       k.rec)
        Found(first) ==
            IF first.ptr = NULL
            THEN AddImpl(m, page, firstWord, restOfData, totalLength, var, FALSE)
            ELSE Kept(ReplaceKeepNewest(m, first, firstWord))
    IN  Found(FindUnorderedFirst(m.f, m.blkFirst, page, firstWord))

\* Page::Delete: [m, res]
RECURSIVE DeleteLoop(_, _, _)
DeleteLoop(m, rec, firstWord) ==
    LET After(next, m1) ==
            IF Dead(m1) \/ next.ptr = NULL THEN m1 ELSE DeleteLoop(m1, next, firstWord)
        Shredded(m1) ==
            After(FindUnorderedNext(m1.f, m1.blkFirst, rec.ptr, firstWord), m1)
    IN  Shredded(ShredRecord(m, rec.ptr))

Delete(m, page, firstWord) ==
    LET Found(rec) ==
            IF rec.ptr = NULL THEN [m |-> m, res |-> FALSE]
            ELSE [m |-> Notify(DeleteLoop(m, rec, firstWord), page), res |-> TRUE]
    IN  Found(FindUnorderedFirst(m.f, m.blkFirst, page, firstWord))

(***************************************************************************)
(* Manager: page / block erasure and initialization (Manager.cpp)          *)
(***************************************************************************)
\* Block::IsErasable, Block::CheckEmpty, Block::CheckPages are used by Manager.cpp
\* and described by the specification (block and page states)
BlockIsErasable(f, blk) == MagicOf(f, blk) = 0

RECURSIVE AllOnesFrom(_, _, _)
AllOnesFrom(f, ptr, end) ==
    IF ptr >= end THEN TRUE
    ELSE WordAt(f, ptr) = AllOnes /\ AllOnesFrom(f, ptr + 4, end)

BlockCheckEmpty(f, blk, from) == AllOnesFrom(f, from, blk + BlockSize)

\* [flags, freeCount]: which page states occur in the block, and how many pages are free
CheckPages(f, blk) ==
    [flags |-> { IF PageIsEmpty(f, p) THEN "PagesFree"
                 ELSE IF PageIsErasable(f, p) THEN "PagesErasable"
                 ELSE "PagesUsed" : p \in PagesOf(blk) },
     freeCount |-> Cardinality({ p \in PagesOf(blk) : PageIsEmpty(f, p) })]

\* Manager::EraseBlock (single-word mode)
EraseBlock(m, blk) == [ShredWord(m, blk) EXCEPT !.blocksToErase = TRUE]

\* a faulty ErasePage that leaves the page as it is
ErasePage_Keep(m, page) == m

\* Manager::ErasePage
ErasePage(m, page) ==
    LET b == BlockFromPtr(page)
        Shredded(m1) ==
            IF CheckPages(m1.f, b).flags = {"PagesErasable"} THEN EraseBlock(m1, b) ELSE m1
    IN  Shredded(ShredWord(m, page))

\* Manager::EraseAll: [m, res]
RECURSIVE EraseAllLoop(_, _, _, _)
EraseAllLoop(m, page, id, count) ==
    IF page = NULL \/ Dead(m) THEN [m |-> m, res |-> count]
    ELSE LET Erased(m1) ==
                 EraseAllLoop(m1, FastEnum(m1.f, BlockFromPtr(page), page + PageSize, id),
                              id, count + 1)
         IN  Erased(ErasePage(m, page))

EraseAll(m, id) ==
    LET Done(r) == [m |-> IF r.res # 0 THEN RunCollector(r.m) ELSE r.m, res |-> r.res]
    IN  Done(EraseAllLoop(m, PageFirst(m.f, m.blkFirst, id), id, 0))

\* the block loop of Manager::Initialize, from the highest block down: [m, corrupted]
RECURSIVE InitializeLoop(_, _, _, _)
InitializeLoop(m, blk, ignoreCorrupted, corrupted) ==
    LET f == m.f
        Go(mx, c) == InitializeLoop(mx, blk - BlockSize, ignoreCorrupted, c)
        ShredHeader(mx) == ShredWord(ShredWord(mx, blk + 4), blk)
        \* a block with the magic and an all-ones generation: completed or given up
        Healed(fm) == IF fm.ok THEN Go(fm.m, corrupted) ELSE Go(ShredHeader(fm.m), corrupted)
        Checked(mf, res) ==
            IF res.flags = {"PagesErasable"} THEN Go(EraseBlock(mf, blk), corrupted)
            ELSE Go([mf EXCEPT !.pagesAvailable = @ + res.freeCount], corrupted)
        WithMagic(mf) ==
            IF GenerationOf(f, blk) = AllOnes
            THEN IF BlockCheckEmpty(f, blk, blk + 8) THEN Healed(BlockFormat(mf, blk, 1))
                 ELSE Go(ShredHeader(mf), corrupted)
            ELSE Checked(mf, CheckPages(f, blk))
    IN  IF blk < blkStart THEN [m |-> m, corrupted |-> corrupted]
        ELSE IF MagicOf(f, blk) = Magic THEN WithMagic([m EXCEPT !.blkFirst = blk])
        ELSE IF BlockCheckEmpty(f, blk, blk)
        THEN Go([m EXCEPT !.pagesAvailable = @ + PagesPerBlock], corrupted)
        ELSE IF BlockIsErasable(f, blk) THEN Go([m EXCEPT !.blocksToErase = TRUE], corrupted)
        ELSE IF ignoreCorrupted THEN Go(m, corrupted + 1)
        ELSE Go([ShredHeader(m) EXCEPT !.blocksToErase = TRUE], corrupted)

\* unsigned "a < b" on 32-bit values held as signed integers
ULT(a, b) == IF (a < 0) = (b < 0) THEN a < b ELSE b < 0

\* Manager::Initialize(area, flags): [m, res]
Initialize(m, reset, ignoreCorrupted) ==
    LET Scanned(r) ==
            IF r.corrupted # 0 THEN [m |-> r.m, res |-> FALSE]
            ELSE IF r.m.blocksToErase \/ ULT(r.m.pagesAvailable, PagesKeptFree)
            THEN [m |-> RunCollector(r.m), res |-> TRUE]
            ELSE [m |-> r.m, res |-> TRUE]
    IN  Scanned(InitializeLoop(
            [m EXCEPT !.blkFirst = blkEnd, !.pagesAvailable = 0, !.collecting = FALSE,
                      !.reg = NoRegistry,
                      !.f = IF reset THEN [i \in 1..FlashWords |-> AllOnes] ELSE @],
            blkEnd - BlockSize, ignoreCorrupted, 0))

\* Manager::EraseBlocks, taken as one step (the emulated erase completes at once)
RECURSIVE EraseBlocksLoop(_, _)
EraseBlocksLoop(m, blk) ==
    IF blk = blkEnd THEN [m EXCEPT !.blocksToErase = FALSE]
    ELSE IF BlockIsErasable(m.f, blk)
    THEN LET gen == GenerationOf(m.f, blk)
             Formatted(fm) ==
                 IF fm.ok
                 THEN EraseBlocksLoop([fm.m EXCEPT !.pagesAvailable = @ + PagesPerBlock],
                                      blk + BlockSize)
                 ELSE EraseBlocksLoop(ShredWord(ShredWord(fm.m, blk + 4), blk),
                                      blk + BlockSize)
             Erased(m1) ==
                 IF gen = 0 THEN Formatted([m |-> m1, ok |-> TRUE])
                 ELSE Formatted(BlockFormat(m1, blk, gen + 1))
         IN  Erased([m EXCEPT !.f = EraseRange(@, blk)])
    ELSE EraseBlocksLoop(m, blk + BlockSize)

\* a faulty EraseBlocks that does not count the pages of the blocks it erased
EraseBlocks_NoCount(m) ==
    [EraseBlocksLoop(m, blkStart) EXCEPT !.pagesAvailable = m.pagesAvailable]

EraseBlocks(m) == EraseBlocksLoop(m, blkStart)

\* Manager::Collector with no collector registered: Collect() finds nothing,
\* blocks marked erasable are erased, and the task ends
Collector(m) ==
    [(IF m.blocksToErase THEN EraseBlocks(m) ELSE m) EXCEPT !.collecting = FALSE,
                                                            !.tasks = @ - 1]

\* CollectorDiscardOldest: the oldest page of the id, or NULL
CollectorDiscardOldest(m, id) == OldestFirst(m.f, m.blkFirst, id)

\* CollectorCleanup: the oldest page of the id, other than the newest, without a record
RECURSIVE CleanupFrom(_, _, _)
CleanupFrom(m, oldest, newest) ==
    IF oldest = newest THEN NULL
    ELSE IF FindForwardNextImpl(m.f, m.blkFirst, oldest, NULL, 0, "none").ptr = NULL
    THEN oldest
    ELSE CleanupFrom(m, OldestNext(m.f, m.blkFirst, oldest), newest)
CollectorCleanup(m, id) ==
    CleanupFrom(m, OldestFirst(m.f, m.blkFirst, id), NewestFirst(m.f, m.blkFirst, id))

(***************************************************************************)
(* Page::MoveRecords (Page.Storage.cpp)                                    *)
(***************************************************************************)
\* the words after the first word of the record at rec, as WriteImpl reads them
RestOf(f, rec) == [i \in 1..((rec.len + 3) \div 4 - 1) |-> WordAt(f, rec.ptr + 4 * i)]

\* the simulation loop of MoveRecords: TRUE iff every record of page src fits
RECURSIVE MoveFits(_, _, _, _, _, _)
MoveFits(f, src, p, rec, testFree, freeMax) ==
    LET On(r, recordSize, requiredLength) ==
            IF r.ptr = NULL THEN TRUE
            ELSE IF recordSize # 0
            THEN IF testFree + recordSize > freeMax \/ r.len > recordSize THEN FALSE
                 ELSE MoveFits(f, src, p, r.ptr, testFree + recordSize, freeMax)
            ELSE IF testFree - 4 + requiredLength > freeMax THEN FALSE
                 ELSE MoveFits(f, src, p, r.ptr, testFree + requiredLength, freeMax)
        Req(r) == On(r, RecordSizeOf(f, p), RequiredAligned(r.len + 4))
    IN  Req(FindForwardNextImpl(f, NULL, src, rec, 0, "none"))

\* the move loop of MoveRecords: [m, success, moved]; moved is never incremented
RECURSIVE MoveLoop(_, _, _, _, _, _)
MoveLoop(m, src, p, rec, free, moved) ==
    LET Written(w, r) ==
            IF w.res.ptr # NULL
            THEN MoveLoop(ShredRecord(w.m, r.ptr), src, p, r.ptr,
                          w.res.ptr + (IF RecordSizeOf(m.f, p) # 0 THEN RecordSizeOf(m.f, p)
                                       ELSE VarSkipLen(r.len)), moved)
            ELSE [m |-> w.m, success |-> FALSE, moved |-> moved]
        On(r) ==
            IF r.ptr = NULL THEN [m |-> m, success |-> TRUE, moved |-> moved]
            ELSE IF free < PageDataEnd(p)
            THEN Written(WriteImpl(m, free, FirstWord(m.f, r.ptr), RestOf(m.f, r), r.len), r)
            ELSE [m |-> m, success |-> FALSE, moved |-> moved]
    IN  On(FindForwardNextImpl(m.f, NULL, src, rec, 0, "none"))

\* Page::MoveRecords(p, limit) on page src: [m, res]
MoveRecords(m, src, p, limit) ==
    LET Done(r) == [m |-> IF r.moved # 0 THEN Notify(r.m, PageIdOf(m.f, src)) ELSE r.m,
                    res |-> r.success]
        From(free) ==
            IF free = NULL THEN [m |-> m, res |-> FALSE]
            ELSE IF ~MoveFits(m.f, src, p, NULL, free,
                              IF limit # 0 /\ free + limit < PageDataEnd(p)
                              THEN free + limit ELSE PageDataEnd(p))
            THEN [m |-> m, res |-> FALSE]
            ELSE Done(MoveLoop(m, src, p, NULL, free, 0))
    IN  From(FindFree(m.f, p))


\* the loop of CollectorRelocate: [m, page]
RECURSIVE RelocateFrom(_, _, _)
RelocateFrom(m, oldest, newest) ==
    IF oldest = newest \/ oldest = NULL THEN [m |-> m, page |-> NULL]
    ELSE LET Moved(r) ==
                 IF r.res THEN [m |-> r.m, page |-> oldest]
                 ELSE RelocateFrom(r.m, OldestNext(r.m.f, r.m.blkFirst, oldest), newest)
         IN  Moved(MoveRecords(m, oldest, newest, PagePayload \div 2))

CollectorRelocate(m, id) ==
    RelocateFrom(m, OldestFirst(m.f, m.blkFirst, id), NewestFirst(m.f, m.blkFirst, id))

\* collector.collector(collector.key): the delegate registered for the entry, which
\* may write to the flash: [m, page]
InvokeCollector(m, c) ==
    IF c.collector = "CollectorCleanup" THEN [m |-> m, page |-> CollectorCleanup(m, c.key)]
    ELSE IF c.collector = "CollectorRelocate" THEN CollectorRelocate(m, c.key)
    ELSE [m |-> m, page |-> CollectorDiscardOldest(m, c.key)]

\* Manager::Collect(destructive) over the registered collectors (ordered by level), each
\* [key, level, collector]: [m, collected]; m.inv logs every invocation of a delegate
\* with the page it returned, the machine it was invoked on and the flash it left;
\* a pass cut by a power loss ends where it is
RECURSIVE CollectFrom(_, _, _, _, _)
CollectFrom(m, collectors, i, destructive, collected) ==
    IF i > Len(collectors) \/ Dead(m) THEN [m |-> m, collected |-> collected]
    ELSE IF ~destructive /\ collectors[i].level # 0 THEN [m |-> m, collected |-> collected]
    ELSE LET Logged(r) ==
                 [r.m EXCEPT !.inv = Append(@, [key |-> collectors[i].key,
                                                level |-> collectors[i].level,
                                                collector |-> collectors[i].collector,
                                                page |-> r.page, f |-> m.f, g |-> r.m.f,
                                                avail |-> m.pagesAvailable])]
             Found(r) ==
                 IF r.page = NULL
                 THEN CollectFrom(Logged(r), collectors, i + 1, destructive, collected)
                 ELSE CollectFrom(ErasePage(Logged(r), r.page), collectors,
                                  IF collectors[i].level # 0 THEN i + 1 ELSE i,
                                  destructive, collected + 1)
         IN  Found(InvokeCollector(m, collectors[i]))

\* a faulty Collect that never runs the collectors above level 0
Collect_NonDestructive(m, collectors, destructive) == CollectFrom(m, collectors, 1, FALSE, 0)

Collect(m, collectors, destructive) == CollectFrom(m, collectors, 1, destructive, 0)

\* Manager::Collector from the top of its loop to the next async_yield or to its end
CollectorLoop(m) ==
    LET Erased(m1) ==
            IF ~ULT(m1.pagesAvailable, PagesKeptFree)
            THEN [m1 EXCEPT !.collecting = FALSE, !.yielded = FALSE, !.tasks = @ - 1]
            ELSE [m1 EXCEPT !.yielded = TRUE]
    IN  Erased(IF m.blocksToErase THEN EraseBlocks(m) ELSE m)

\* Manager::Collector from its start: the non-destructive collection, then the loop
CollectorBegin(m, collectors) == CollectorLoop(Collect(m, collectors, FALSE).m)

\* a faulty Collector that ends after one destructive pass, whatever it collected
CollectorResume_OnePass(m, collectors) ==
    [Collect(m, collectors, TRUE).m EXCEPT !.collecting = FALSE, !.yielded = FALSE,
                                           !.tasks = @ - 1]

\* Manager::Collector resumed after async_yield: the destructive collection, then the loop
CollectorResume(m, collectors) ==
    LET Collected(r) ==
            IF r.collected = 0 /\ ~r.m.blocksToErase
            THEN [r.m EXCEPT !.collecting = FALSE, !.yielded = FALSE, !.tasks = @ - 1]
            ELSE CollectorLoop(r.m)
    IN  Collected(Collect(m, collectors, TRUE))

(***************************************************************************)
(* State                                                                   *)
(***************************************************************************)
VARIABLES
    flash,          \* the flash medium, one signed 32-bit integer per word
    blkFirst,       \* Manager::blkFirst (byte address; blkEnd when no block is used)
    pagesAvailable, \* Manager::pagesAvailable
    collecting,     \* Manager::collecting
    blocksToErase,  \* Manager::blocksToErase
    yielded,        \* the collector task is suspended at its async_yield
    erasing,        \* where Manager::EraseBlocks is suspended in Flash::ErasePageAsync
    registry,       \* Manager::collectors and Manager::notifiers
    tasks,          \* number of Collector tasks that are pending or running
    client,         \* the Settings object notified through the registered trackers
    last,           \* the last operation: its arguments, result and side effects
    hist,           \* records acknowledged by Add so far, oldest first (where blocks are
                    \* allocated: the last Initialize and the results of NewBlock since)
    issued,         \* every payload ever handed to Add or Replace
    ops,            \* number of operations performed
    losses          \* number of power losses so far

vars ==
    <<flash, blkFirst, pagesAvailable, collecting, blocksToErase, yielded, erasing, registry,
      tasks, client, last, hist, issued, ops, losses>>

\* bounds of the exploration
MaxOps == 3
MaxKey == 2
MaxFuel == 8
MaxLoss == 1

Ids == {65, 66}
Keys == 1..MaxKey
Rec(first, rest, len) == [first |-> first, rest |-> rest, len |-> len]
\* a word whose upper (4 - n) bytes are not programmed (left all-ones)
PadWord(v, n) == v - 256 ^ n
Machine(fuel, ub) ==
    [f |-> flash, fuel |-> fuel, ub |-> ub, blkFirst |-> blkFirst,
     pagesAvailable |-> pagesAvailable, collecting |-> collecting,
     blocksToErase |-> blocksToErase, yielded |-> yielded, rc |-> 0, spawned |-> 0,
     ntf |-> <<>>, seen |-> <<>>, reg |-> registry, cl |-> client, tasks |-> tasks,
     inv |-> <<>>, fault |-> -1, junk |-> "none", reports |-> FALSE,
     failed |-> <<>>, erasing |-> erasing]

\* power-on: RAM is zeroed and Manager::Initialize runs over what the flash holds
PowerOn(m) ==
    Initialize([m EXCEPT !.fuel = -1, !.blocksToErase = FALSE, !.collecting = FALSE,
                         !.yielded = FALSE, !.rc = 0, !.spawned = 0, !.ntf = <<>>,
                         !.seen = <<>>, !.cl = NoClient, !.tasks = 0, !.inv = <<>>,
                         !.fault = -1, !.failed = <<>>, !.erasing = NoErase],
               FALSE, FALSE).m

NoOp ==
    [op |-> "Initialize", id |-> 0, first |-> 0, rest |-> <<>>, len |-> 0, var |-> FALSE,
     res |-> NoSpan, ok |-> TRUE, count |-> 0, ntf |-> <<>>, seen |-> <<>>, rc |-> 0,
     spawned |-> 0, inv |-> <<>>, failed |-> <<>>, lost |-> FALSE]

\* the operation ended with machine m and result res; a machine that lost power restarts
Finish(m, op, id, pl, var, res, ok, count) ==
    LET lost == Dead(m)
        Commit(m2) ==
            /\ flash' = m2.f
            /\ blkFirst' = m2.blkFirst
            /\ pagesAvailable' = m2.pagesAvailable
            /\ collecting' = m2.collecting
            /\ blocksToErase' = m2.blocksToErase
            /\ yielded' = m2.yielded
            /\ erasing' = m2.erasing
            /\ registry' = m2.reg
            /\ tasks' = m2.tasks
            /\ client' = m2.cl
    IN  /\ Commit(IF lost THEN PowerOn(m) ELSE m)
        /\ last' = [op |-> op, id |-> id, first |-> pl.first, rest |-> pl.rest,
                    len |-> pl.len, var |-> var,
                    res |-> IF lost THEN NoSpan ELSE res,
                    ok |-> ~lost /\ ok, count |-> IF lost THEN 0 ELSE count,
                    ntf |-> IF lost THEN <<>> ELSE m.ntf,
                    seen |-> IF lost THEN <<>> ELSE m.seen,
                    rc |-> IF lost THEN 0 ELSE m.rc,
                    spawned |-> IF lost THEN 0 ELSE m.spawned,
                    inv |-> IF lost THEN <<>> ELSE m.inv,
                    failed |-> IF lost THEN <<>> ELSE m.failed,
                    lost |-> lost]
        /\ ops' = ops + 1
        /\ losses' = IF lost THEN losses + 1 ELSE losses

Init ==
    LET r == Initialize(
                [f |-> [i \in 1..FlashWords |-> 0], fuel |-> -1, ub |-> "fault",
                 blkFirst |-> blkEnd, pagesAvailable |-> 0, collecting |-> FALSE,
                 blocksToErase |-> FALSE, rc |-> 0, spawned |-> 0, ntf |-> <<>>,
                 reg |-> NoRegistry, cl |-> NoClient, tasks |-> 0, erasing |-> NoErase,
                 fault |-> -1,
                 junk |-> "none", reports |-> FALSE, failed |-> <<>>],
                TRUE, FALSE)
    IN  /\ flash = r.m.f
        /\ blkFirst = r.m.blkFirst
        /\ pagesAvailable = r.m.pagesAvailable
        /\ collecting = r.m.collecting
        /\ blocksToErase = r.m.blocksToErase
        /\ yielded = FALSE
        /\ erasing = NoErase
        /\ registry = NoRegistry
        /\ tasks = r.m.tasks
        /\ client = NoClient
        /\ last = NoOp
        /\ hist = <<>>
        /\ issued = {}
        /\ ops = 0
        /\ losses = 0

UBs == {"fault", "scan"}

\* Page::AddFixed / Page::AddVar of payload pl on page id
AddStep(var, id, pl, fuel, ub) ==
    LET Done(r) ==
            /\ fuel = -1 \/ Dead(r.m)
            /\ Finish(r.m, IF var THEN "AddVar" ELSE "AddFixed", id, pl, var, r.res,
                      r.res.ptr # NULL, 0)
            /\ hist' = IF r.res.ptr # NULL /\ ~Dead(r.m)
                       THEN Append(hist, [id |-> id, ptr |-> r.res.ptr, pl |-> pl])
                       ELSE hist
            /\ issued' = issued \cup {[id |-> id, pl |-> pl]}
    IN  Done(AddImpl(Machine(fuel, ub), id, pl.first, pl.rest, pl.len, var, FALSE))

\* Page::ReplaceFixed / Page::ReplaceVar of payload pl (key pl.first) on page id;
\* the span returned is that of the data after the key
ReplaceStep(var, id, pl, fuel, ub) ==
    LET Done(r) ==
            /\ fuel = -1 \/ Dead(r.m)
            /\ Finish(r.m, IF var THEN "ReplaceVar" ELSE "ReplaceFixed", id, pl, var,
                      OffsetPackedData(r.res, 4), r.res.ptr # NULL, 0)
            /\ hist' = hist
            /\ issued' = issued \cup {[id |-> id, pl |-> pl]}
    IN  Done(ReplaceImpl(Machine(fuel, ub), id, pl.first, pl.rest, pl.len, var))

\* Page::Delete(id, key)
DeleteStep(id, key, fuel, ub) ==
    LET Done(r) ==
            /\ fuel = -1 \/ Dead(r.m)
            /\ Finish(r.m, "Delete", id, Rec(key, <<>>, 0), FALSE, NoSpan, r.res, 0)
            /\ UNCHANGED <<hist, issued>>
    IN  Done(Delete(Machine(fuel, ub), id, key))

\* Manager::EraseAll(id)
EraseAllStep(id) ==
    LET Done(r) ==
            /\ Finish(r.m, "EraseAll", id, Rec(0, <<>>, 0), FALSE, NoSpan, TRUE, r.res)
            /\ UNCHANGED <<hist, issued>>
    IN  Done(EraseAll(Machine(-1, "fault"), id))

\* Page::New(id, recordSize)
NewStep(id, recordSize, ub) ==
    LET Done(r) ==
            /\ Finish(r.m, "New", id, Rec(0, <<>>, 0), recordSize = 0,
                      Span(r.page, recordSize), r.page # NULL, 0)
            /\ UNCHANGED <<hist, issued>>
    IN  Done(NewPage(Machine(-1, ub), id, recordSize))

\* the collector task runs (it was spawned by RunCollector)
CollectorStep ==
    /\ collecting /\ ~yielded
    /\ Finish(Collector(Machine(-1, "fault")), "Collector", 0, Rec(0, <<>>, 0), FALSE,
              NoSpan, TRUE, 0)
    /\ UNCHANGED <<hist, issued>>

(***************************************************************************)
(* Enumerations of records, as a caller iterates them                      *)
(***************************************************************************)
RECURSIVE ForwardChain(_, _, _, _, _)
ForwardChain(f, bf, rec, firstWord, mode) ==
    IF rec.ptr = NULL THEN <<>>
    ELSE <<rec>> \o ForwardChain(f, bf,
            FindForwardNextImpl(f, bf, PageFromPtr(rec.ptr), rec.ptr, firstWord, mode),
            firstWord, mode)
RECURSIVE NewestChain(_, _, _, _)
NewestChain(f, bf, rec, firstWord) ==
    IF rec.ptr = NULL THEN <<>>
    ELSE <<rec>> \o NewestChain(f, bf, FindNewestNext(f, bf, rec.ptr, firstWord), firstWord)
EnumUnordered(f, bf, id, firstWord) ==
    ForwardChain(f, bf, FindUnorderedFirst(f, bf, id, firstWord), firstWord, "unordered")
EnumOldest(f, bf, id, firstWord) ==
    ForwardChain(f, bf, FindOldestFirst(f, bf, id, firstWord), firstWord, "oldest")
EnumNewest(f, bf, id, firstWord) ==
    NewestChain(f, bf, FindNewestFirst(f, bf, id, firstWord), firstWord)
Range(s) == { s[i] : i \in DOMAIN s }

\* the bytes at ptr are the payload pl (whole words, then the bytes of the last word)
HoldsPayload(f, ptr, pl) ==
    /\ WordAt(f, ptr) = pl.first
    /\ (pl.len <= 4 \/ BytesEqual(f, ptr + 4, pl.rest, pl.len - 4))
\* span rec is the stored form of payload pl: a variable record has its length,
\* a fixed record fills a slot that is at least as long
SpanHolds(f, rec, pl) ==
    /\ HoldsPayload(f, rec.ptr, pl)
    /\ IF RecordSizeOf(f, PageFromPtr(rec.ptr)) # 0
       THEN rec.len = RecordSizeOf(f, PageFromPtr(rec.ptr)) /\ rec.len >= pl.len
       ELSE rec.len = pl.len

Payloads ==
    { Rec(1, <<7>>, 8), Rec(1, <<9>>, 8), Rec(2, <<PadWord(7, 2)>>, 6),
      Rec(1, <<7, 9>>, 12), Rec(2, <<7, 7, 7, 9>>, 20) }

(***************************************************************************)
(* SpecAdd: records are only ever added                                    *)
(***************************************************************************)
AddFixed ==
    \E id \in Ids, pl \in Payloads :
        ops < MaxOps /\ AddStep(FALSE, id, pl, -1, "fault")
AddVar ==
    \E id \in Ids, pl \in Payloads :
        ops < MaxOps /\ AddStep(TRUE, id, pl, -1, "fault")
NextAdd == AddFixed \/ AddVar
SpecAdd == Init /\ [][NextAdd]_vars

FoundIn(enum, h) == \E r \in Range(enum) : r.ptr = h.ptr /\ SpanHolds(flash, r, h.pl)
FoundByAll(h, firstWord) ==
    /\ FoundIn(EnumUnordered(flash, blkFirst, h.id, firstWord), h)
    /\ FoundIn(EnumOldest(flash, blkFirst, h.id, firstWord), h)
    /\ FoundIn(EnumNewest(flash, blkFirst, h.id, firstWord), h)

\* C2: every record an Add acknowledged with a valid span is returned, with the bytes
\* that were passed in, by the unordered, newest-first and oldest-first enumerations of
\* its page id, both without a key and with its first word as the key
C2_AddRoundTrip ==
    \A i \in DOMAIN hist : FoundByAll(hist[i], 0) /\ FoundByAll(hist[i], hist[i].pl.first)

(***************************************************************************)
(* SpecPower: Adds, any of which may be cut short by a power loss          *)
(***************************************************************************)
PowerIds == {65}
PowerAddFixed ==
    \E id \in PowerIds, pl \in Payloads, ub \in UBs :
        ops < MaxOps /\ AddStep(FALSE, id, pl, -1, ub)
PowerAddVar ==
    \E id \in PowerIds, pl \in Payloads, ub \in UBs :
        ops < MaxOps /\ AddStep(TRUE, id, pl, -1, ub)
\* the same calls cut short by a power loss after `fuel` programmed words
AddFixedPowerLoss ==
    \E id \in PowerIds, pl \in Payloads, fuel \in 1..MaxFuel :
        ops < MaxOps /\ losses < MaxLoss /\ AddStep(FALSE, id, pl, fuel, "fault")
AddVarPowerLoss ==
    \E id \in PowerIds, pl \in Payloads, fuel \in 1..MaxFuel :
        ops < MaxOps /\ losses < MaxLoss /\ AddStep(TRUE, id, pl, fuel, "fault")
NextPower == PowerAddFixed \/ PowerAddVar \/ AddFixedPowerLoss \/ AddVarPowerLoss
SpecPower == Init /\ [][NextPower]_vars

FirstWords == {0} \cup Keys
AllEnums(id, firstWord) ==
    Range(EnumUnordered(flash, blkFirst, id, firstWord))
        \cup Range(EnumOldest(flash, blkFirst, id, firstWord))
        \cup Range(EnumNewest(flash, blkFirst, id, firstWord))
WasIssued(id, r) == \E i \in issued : i.id = id /\ SpanHolds(flash, r, i.pl)

\* C1: whatever the point at which power was lost during an Add, after the restart
\* every record that a Find enumeration (keyed or unkeyed) returns for a page id is the
\* complete payload of some Add call made for that id; no partially written record shows
C1_PowerLossSafety ==
    \A id \in Ids, fw \in FirstWords : \A r \in AllEnums(id, fw) : WasIssued(id, r)

(***************************************************************************)
(* SpecReplace: Add and Replace on one page id; a Replace may lose power   *)
(***************************************************************************)
ReplaceIds == {65}
ReplAddFixed ==
    \E id \in ReplaceIds, pl \in Payloads :
        ops < MaxOps /\ AddStep(FALSE, id, pl, -1, "fault")
ReplAddVar ==
    \E id \in ReplaceIds, pl \in Payloads :
        ops < MaxOps /\ AddStep(TRUE, id, pl, -1, "fault")
ReplaceFixed ==
    \E id \in ReplaceIds, pl \in Payloads, ub \in UBs :
        ops < MaxOps /\ ReplaceStep(FALSE, id, pl, -1, ub)
ReplaceVar ==
    \E id \in ReplaceIds, pl \in Payloads, ub \in UBs :
        ops < MaxOps /\ ReplaceStep(TRUE, id, pl, -1, ub)
ReplaceFixedPowerLoss ==
    \E id \in ReplaceIds, pl \in Payloads, fuel \in 1..MaxFuel :
        ops < MaxOps /\ losses < MaxLoss /\ ReplaceStep(FALSE, id, pl, fuel, "fault")
ReplaceVarPowerLoss ==
    \E id \in ReplaceIds, pl \in Payloads, fuel \in 1..MaxFuel :
        ops < MaxOps /\ losses < MaxLoss /\ ReplaceStep(TRUE, id, pl, fuel, "fault")
NextReplace ==
    \/ ReplAddFixed \/ ReplAddVar \/ ReplaceFixed \/ ReplaceVar
    \/ ReplaceFixedPowerLoss \/ ReplaceVarPowerLoss
SpecReplace == Init /\ [][NextReplace]_vars

IsReplace(l) == l.op \in {"ReplaceFixed", "ReplaceVar"}
LastPayload(l) == Rec(l.first, l.rest, l.len)
\* the words a span covers
RecordWords(f, r) == [i \in 0..((r.len + 3) \div 4 - 1) |-> WordAt(f, r.ptr + 4 * i)]
\* what the three enumerations of (id, firstWord) return: spans and their bytes
Listing(f, bf, id, firstWord) ==
    LET Show(enum) == [i \in DOMAIN enum |-> <<enum[i], RecordWords(f, enum[i])>>]
    IN  <<Show(EnumUnordered(f, bf, id, firstWord)), Show(EnumOldest(f, bf, id, firstWord)),
          Show(EnumNewest(f, bf, id, firstWord))>>

\* C3: when ReplaceFixed / ReplaceVar (P, K, v) returns a valid span, each of the
\* unordered, oldest-first and newest-first enumerations for key K yields exactly one
\* record, holding v, and the records of every other key are what they were before
C3_ReplaceUnique ==
    [][(IsReplace(last') /\ last'.res.ptr # NULL) =>
        /\ LET S(e) == Len(e) = 1 /\ SpanHolds(flash', e[1], LastPayload(last'))
           IN  /\ S(EnumUnordered(flash', blkFirst', last'.id, last'.first))
               /\ S(EnumOldest(flash', blkFirst', last'.id, last'.first))
               /\ S(EnumNewest(flash', blkFirst', last'.id, last'.first))
        /\ \A k \in Keys \ {last'.first} :
              Listing(flash', blkFirst', last'.id, k) = Listing(flash, blkFirst, last'.id, k)
      ]_vars

\* C4: if a record with key K is findable when Replace(P, K, v) starts, one is findable
\* when the call has ended, however it ended: with a valid span, with an invalid one for
\* lack of space, or cut short by a power loss after any number of flash writes
C4_ReplaceKeepsKey ==
    [][(IsReplace(last')
        /\ FindUnorderedFirst(flash, blkFirst, last'.id, last'.first).ptr # NULL) =>
            FindUnorderedFirst(flash', blkFirst', last'.id, last'.first).ptr # NULL
      ]_vars

\* C5: a Replace(P, K, v) that follows a successful Replace(P, K, v) with the same v
\* returns the same span (pointer and length), writes nothing to the flash and
\* notifies nobody
C5_ReplaceIdempotent ==
    [][(/\ IsReplace(last) /\ last.res.ptr # NULL
        /\ last'.op = last.op /\ last'.id = last.id /\ ~last'.lost
        /\ LastPayload(last') = LastPayload(last)) =>
            (last'.res = last.res /\ flash' = flash /\ last'.ntf = <<>>)
      ]_vars

(***************************************************************************)
(* SpecDelete: Add and Delete on two page ids                              *)
(***************************************************************************)
DelAddFixed ==
    \E id \in Ids, pl \in Payloads :
        ops < MaxOps /\ AddStep(FALSE, id, pl, -1, "fault")
DelAddVar ==
    \E id \in Ids, pl \in Payloads :
        ops < MaxOps /\ AddStep(TRUE, id, pl, -1, "fault")
DeleteKey ==
    \E id \in Ids, key \in Keys :
        ops < MaxOps /\ DeleteStep(id, key, -1, "fault")
NextDelete == DelAddFixed \/ DelAddVar \/ DeleteKey
SpecDelete == Init /\ [][NextDelete]_vars

\* the record h was added to page id with first word key
Keyed(h, id, key) == h.id = id /\ h.pl.first = key

\* C6: Delete(P, K) leaves every record that was added to P with first word K shredded
\* (first word 0), returns true iff it shredded at least one record, afterwards
\* FindUnorderedFirst(P, K) returns none, and the records with another key or on another
\* page id keep their bytes
C6_DeleteShredsAll ==
    [][(last'.op = "Delete") =>
        /\ \A i \in DOMAIN hist :
              IF Keyed(hist[i], last'.id, last'.first)
              THEN WordAt(flash', hist[i].ptr) = 0
              ELSE RecordWords(flash', Span(hist[i].ptr, hist[i].pl.len))
                      = RecordWords(flash, Span(hist[i].ptr, hist[i].pl.len))
        /\ last'.ok = (flash' # flash)
        /\ FindUnorderedFirst(flash', blkFirst', last'.id, last'.first).ptr = NULL
      ]_vars

(***************************************************************************)
(* SpecErase: pages of two ids are filled, erased as a whole, and the      *)
(* collector task erases the blocks that were given up                     *)
(***************************************************************************)
MaxEraseOps == 6
\* a fixed record that fills its page, and a variable record
EraseAddFixed ==
    \E id \in Ids :
        ops < MaxEraseOps /\ AddStep(FALSE, id, Rec(2, <<7, 7, 7, 9>>, 20), -1, "fault")
EraseAddVar ==
    \E id \in Ids :
        ops < MaxEraseOps /\ AddStep(TRUE, id, Rec(1, <<7, 9>>, 12), -1, "fault")
EraseAllPages ==
    \E id \in Ids :
        ops < MaxEraseOps /\ EraseAllStep(id)
EraseCollector ==
    ops < MaxEraseOps /\ CollectorStep
NextErase == EraseAddFixed \/ EraseAddVar \/ EraseAllPages \/ EraseCollector
SpecErase == Init /\ [][NextErase]_vars

\* the words of page p, header and payload
PageWords(f, p) == [i \in 0..(PageSize \div 4 - 1) |-> WordAt(f, p + 4 * i)]
\* no search for (id, any key) finds anything
NothingFound(f, bf, id) ==
    \A k \in FirstWords :
        /\ FindUnorderedFirst(f, bf, id, k).ptr = NULL
        /\ FindOldestFirst(f, bf, id, k).ptr = NULL
        /\ FindNewestFirst(f, bf, id, k).ptr = NULL

\* C7: after EraseAll(id), Page::First(id) and every Find*(id, key) return none, the
\* pages of every other id and what the searches return for them are as they were, and
\* the call has requested the collector exactly if it erased at least one page
C7_EraseAll ==
    [][(last'.op = "EraseAll") =>
        /\ PageFirst(flash', blkFirst', last'.id) = NULL
        /\ NothingFound(flash', blkFirst', last'.id)
        /\ \A p \in AllPages :
              (PageIsValid(flash, p) /\ PageIdOf(flash, p) # last'.id) =>
                  PageWords(flash', p) = PageWords(flash, p)
        /\ \A id \in Ids \ {last'.id}, k \in FirstWords :
              Listing(flash', blkFirst', id, k) = Listing(flash, blkFirst, id, k)
        /\ (last'.rc > 0) = (last'.count > 0)
        /\ (last'.count > 0) => collecting'
      ]_vars

\* EraseAll has just erased several pages of one id while the other id has a page
\* with a record that is found
C7_EraseAllWitness ==
    /\ last.op = "EraseAll" /\ last.count >= 2 /\ last.rc > 0 /\ collecting
    /\ \E id \in Ids \ {last.id} : FindUnorderedFirst(flash, blkFirst, id, 0).ptr # NULL

(***************************************************************************)
(* What the searches return                                                *)
(***************************************************************************)
\* span r denotes a valid record on a valid page of the given id
ValidSpan(f, r, id) ==
    LET p == PageFromPtr(r.ptr)
        fixed == RecordSizeOf(f, p) # 0
    IN  /\ p \in AllPages /\ PageIsValid(f, p) /\ PageIdOf(f, p) = id
        /\ FirstWord(f, r.ptr) # 0
        /\ fixed => FirstWord(f, r.ptr) # AllOnes
        /\ ~fixed => VarGetLen(f, r.ptr) # 0 /\ VarGetLen(f, r.ptr) # AllOnes
        /\ r.ptr >= PageData(p) + (IF fixed THEN 0 ELSE 4)
        /\ r.len > 0 /\ r.ptr + r.len <= PageDataEnd(p)

\* C8: every span that a First or Next call of the unordered, oldest-first or
\* newest-first search returns, with or without a key, has a first word other than 0
\* and, on a fixed-size page, other than all-ones; on a variable page its length word is
\* neither 0 nor all-ones; and it lies inside the payload of a valid page of the id asked
C8_FoundSpansValid ==
    \A id \in Ids, fw \in FirstWords : \A r \in AllEnums(id, fw) : ValidSpan(flash, r, id)

\* after a power loss, a search returns records of a fixed-size and of a variable page,
\* next to a record that has been shredded
C8_FoundSpansWitness ==
    /\ losses > 0
    /\ \E r1, r2 \in AllEnums(65, 0) :
          /\ RecordSizeOf(flash, PageFromPtr(r1.ptr)) # 0
          /\ RecordSizeOf(flash, PageFromPtr(r2.ptr)) = 0
    /\ \E p \in AllPages :
          PageIdOf(flash, p) = 65 /\ RecordSizeOf(flash, p) # 0 /\ WordAt(flash, PageData(p)) = 0

(***************************************************************************)
(* Age order of records                                                    *)
(***************************************************************************)
\* the pointers of the records added to page id that match firstWord, oldest first
RECURSIVE AddedPtrs(_, _, _)
AddedPtrs(h, id, firstWord) ==
    IF h = <<>> THEN <<>>
    ELSE (IF Head(h).id = id /\ (firstWord = 0 \/ Head(h).pl.first = firstWord)
          THEN <<Head(h).ptr>> ELSE <<>>) \o AddedPtrs(Tail(h), id, firstWord)
Ptrs(enum) == [i \in DOMAIN enum |-> enum[i].ptr]
Reverse(s) == [i \in DOMAIN s |-> s[Len(s) + 1 - i]]

\* C9: after any sequence of Adds, the oldest-first enumeration of (P, K) returns the
\* matching records in the order they were added, each once, and the newest-first
\* enumeration returns them in exactly the reverse order; so FindOldestFirst is the
\* earliest and FindNewestFirst the most recent matching record
C9_RecordAgeOrder ==
    \A id \in Ids, fw \in FirstWords :
        /\ Ptrs(EnumOldest(flash, blkFirst, id, fw)) = AddedPtrs(hist, id, fw)
        /\ Ptrs(EnumNewest(flash, blkFirst, id, fw)) = Reverse(AddedPtrs(hist, id, fw))

(***************************************************************************)
(* SpecPages: pages of several ids are allocated in any interleaving.  The *)
(* medium is blank at power-on, or holds one page of id 65 left by earlier *)
(* use whose sequence number is two short of the 16-bit wrap.              *)
(***************************************************************************)
MaxPages == 8
PageIds == Ids \cup {67}
UsedFlash ==
    [i \in 1..FlashWords |->
        LET b == blkEnd - BlockSize
        IN  CASE 4 * (i - 1) = b -> Magic
              [] 4 * (i - 1) = b + 4 -> 2
              [] 4 * (i - 1) = BlockBegin(b) -> 65
              [] 4 * (i - 1) = BlockBegin(b) + 4 -> 65534
              [] OTHER -> AllOnes]
InitPages ==
    \E used \in BOOLEAN :
        LET r == Initialize(
                    [f |-> UsedFlash, fuel |-> -1, ub |-> "fault",
                     blkFirst |-> blkEnd, pagesAvailable |-> 0, collecting |-> FALSE,
                     blocksToErase |-> FALSE, rc |-> 0, spawned |-> 0, ntf |-> <<>>,
                 reg |-> NoRegistry, cl |-> NoClient, tasks |-> 0, erasing |-> NoErase,
                 fault |-> -1,
                 junk |-> "none", reports |-> FALSE, failed |-> <<>>],
                    ~used, FALSE)
        IN  /\ flash = r.m.f
            /\ blkFirst = r.m.blkFirst
            /\ pagesAvailable = r.m.pagesAvailable
            /\ collecting = r.m.collecting
            /\ blocksToErase = r.m.blocksToErase
            /\ yielded = FALSE
            /\ erasing = NoErase
            /\ registry = NoRegistry
            /\ tasks = r.m.tasks
            /\ client = NoClient
            /\ last = NoOp
            /\ hist = <<>>
            /\ issued = {}
            /\ ops = 0
            /\ losses = 0
NewPageOf ==
    \E id \in PageIds :
        ops < MaxPages /\ NewStep(id, 0, "fault")
NextPages == NewPageOf
SpecPages == InitPages /\ [][NextPages]_vars

\* the pages a caller visits with first / next; n bounds the number of calls
RECURSIVE OldestChain(_, _, _, _)
OldestChain(f, bf, p, n) ==
    IF p = NULL \/ n = 0 THEN <<>>
    ELSE <<p>> \o OldestChain(f, bf, OldestNext(f, bf, p), n - 1)
RECURSIVE NewestPageChain(_, _, _, _)
NewestPageChain(f, bf, p, n) ==
    IF p = NULL \/ n = 0 THEN <<>>
    ELSE <<p>> \o NewestPageChain(f, bf, NewestNext(f, bf, p), n - 1)
OldestPages(f, bf, id) == OldestChain(f, bf, OldestFirst(f, bf, id), Cardinality(AllPages) + 1)
NewestPages(f, bf, id) ==
    NewestPageChain(f, bf, NewestFirst(f, bf, id), Cardinality(AllPages) + 1)
ValidPagesOf(f, id) == { p \in AllPages : PageIsValid(f, p) /\ PageIdOf(f, p) = id }
OnceEach(ps, S) == Len(ps) = Cardinality(S) /\ Range(ps) = S

\* C10: for every id, OldestFirst / OldestNext visits every valid page of the id once,
\* in strictly increasing wrap-aware sequence order; NewestFirst / NewestNext visits the
\* same pages in exactly the reverse order; First / Next visits each of them once
C10_PageAgeOrder ==
    \A id \in PageIds :
        LET Ordered(ps) ==
                /\ OnceEach(ps, ValidPagesOf(flash, id))
                /\ \A i \in 1..(Len(ps) - 1) :
                      OVF_LT(Sequence(flash, ps[i]), Sequence(flash, ps[i + 1]))
                /\ NewestPages(flash, blkFirst, id) = Reverse(ps)
        IN  /\ Ordered(OldestPages(flash, blkFirst, id))
            /\ OnceEach(UnorderedPages(flash, blkFirst, id), ValidPagesOf(flash, id))

\* pages of id 65 lie in two blocks, interleaved with pages of another id; their sequence
\* numbers have wrapped, and the newer page has the lower address
C10_PageAgeWitness ==
    /\ \E p, q \in ValidPagesOf(flash, 65) :
          Sequence(flash, p) = 65535 /\ Sequence(flash, q) = 0 /\ q < p
    /\ Cardinality(ValidPagesOf(flash, 65)) >= 3
    /\ Cardinality(ValidPagesOf(flash, 66)) >= 2

(***************************************************************************)
(* SpecSeq: pages of two ids are allocated and erased in any interleaving, *)
(* and the collector runs when it is scheduled.  The medium is blank at    *)
(* power-on, or holds one page of id 65 whose sequence number is two short *)
(* of the 16-bit wrap.                                                     *)
(***************************************************************************)
MaxSeqOps == 6
SeqNew ==
    \E id \in Ids :
        ops < MaxSeqOps /\ NewStep(id, 0, "fault")
SeqEraseAll ==
    \E id \in Ids :
        ops < MaxSeqOps /\ EraseAllStep(id)
SeqCollector == ops < MaxSeqOps /\ CollectorStep
NextSeq == SeqNew \/ SeqEraseAll \/ SeqCollector
SpecSeq == InitPages /\ [][NextSeq]_vars

\* the wrap-aware maximum of the sequence numbers of the pages S (S is not empty)
MaxSequence(f, S) ==
    Sequence(f, CHOOSE p \in S : \A q \in S : ~OVF_LT(Sequence(f, p), Sequence(f, q)))

\* C11: a successful NewPage(id, _) gives the new page the sequence (s + 1) mod 2^16, where
\* s is the wrap-aware maximum sequence of the pages of that id valid before the call, or 1
\* if there was none; and no two valid pages of one id ever carry the same sequence number
C11_SequenceAssignment ==
    /\ [][(last'.op = "New" /\ last'.ok) =>
            LET Assigned(S) ==
                    /\ last'.res.ptr \notin S
                    /\ PageIsValid(flash', last'.res.ptr)
                    /\ PageIdOf(flash', last'.res.ptr) = last'.id
                    /\ Sequence(flash', last'.res.ptr) =
                          IF S = {} THEN 1 ELSE (MaxSequence(flash, S) + 1) % 65536
            IN  Assigned(ValidPagesOf(flash, last'.id))]_vars
    /\ [](\A id \in Ids : \A p, q \in ValidPagesOf(flash, id) :
             p # q => Sequence(flash, p) # Sequence(flash, q))

\* a page has just been allocated whose sequence number wrapped to 0 while two older pages
\* of the id are valid, and some page has been erased before
C11_SequenceWitness ==
    /\ last.op = "New" /\ last.ok
    /\ Sequence(flash, last.res.ptr) = 0
    /\ Cardinality(ValidPagesOf(flash, last.id)) >= 3
    /\ \E p \in AllPages : PageIsErasable(flash, p)

(***************************************************************************)
(* SpecInit: the manager is initialized over a medium left by earlier use. *)
(* Each block of the medium starts in one of the shapes below; then        *)
(* Initialize runs with any flags, pages are allocated and erased, the     *)
(* collector runs when it is scheduled, and Initialize may run again when  *)
(* no collector task is pending.                                           *)
(***************************************************************************)
MaxInitOps == 3

\* the shapes of one block: header words and the state of each page ("E" empty,
\* "V" valid with id 65, "W" valid with id 66, "X" shredded, "H" sequence word written
\* but no id yet)
InitShapes ==
    << [magic |-> AllOnes, gen |-> AllOnes, pages |-> <<"E", "E", "E", "E">>],
       [magic |-> Magic,   gen |-> AllOnes, pages |-> <<"E", "E", "E", "E">>],
       [magic |-> Magic,   gen |-> AllOnes, pages |-> <<"V", "E", "E", "E">>],
       [magic |-> Magic,   gen |-> 1,       pages |-> <<"E", "E", "E", "E">>],
       [magic |-> Magic,   gen |-> 1,       pages |-> <<"V", "E", "E", "E">>],
       [magic |-> Magic,   gen |-> 1,       pages |-> <<"X", "V", "H", "E">>],
       [magic |-> Magic,   gen |-> 1,       pages |-> <<"X", "X", "X", "X">>],
       [magic |-> Magic,   gen |-> 2,       pages |-> <<"V", "V", "V", "V">>],
       [magic |-> Magic,   gen |-> 0,       pages |-> <<"V", "E", "E", "E">>],
       [magic |-> 0,       gen |-> 1,       pages |-> <<"X", "X", "X", "X">>],
       [magic |-> 0,       gen |-> 0,       pages |-> <<"E", "E", "E", "E">>],
       [magic |-> 42,      gen |-> AllOnes, pages |-> <<"E", "E", "E", "E">>],
       [magic |-> AllOnes, gen |-> AllOnes, pages |-> <<"V", "E", "E", "E">>] >>

\* the word at byte offset off of block number b when the block has shape s
ShapeWord(s, b, off) ==
    LET k == (off - BlockHeader) \div PageSize
        po == (off - BlockHeader) % PageSize
    IN  IF off = 0 THEN s.magic
        ELSE IF off = 4 THEN s.gen
        ELSE IF k >= PagesPerBlock THEN AllOnes
        ELSE IF po = 0
        THEN CASE s.pages[k + 1] = "V" -> 65
               [] s.pages[k + 1] = "W" -> 66
               [] s.pages[k + 1] = "X" -> 0
               [] OTHER -> AllOnes
        ELSE IF po = 4 /\ s.pages[k + 1] # "E" THEN PagesPerBlock * b + k + 1
        ELSE AllOnes

\* the medium whose block number b has shape shapes[c[b]]
MediumOf(shapes, c) ==
    [i \in 1..FlashWords |->
        ShapeWord(shapes[c[(4 * (i - 1)) \div BlockSize]],
                  (4 * (i - 1)) \div BlockSize, (4 * (i - 1)) % BlockSize)]
Medium(c) == MediumOf(InitShapes, c)

\* the manager before Initialize: zeroed fields over some medium
Boot == [NoOp EXCEPT !.op = "Boot"]
InitBoot ==
    \E c \in [0..(NumBlocks - 1) -> 1..Len(InitShapes)] :
        /\ flash = Medium(c)
        /\ blkFirst = NULL
        /\ pagesAvailable = 0
        /\ collecting = FALSE
        /\ blocksToErase = FALSE
        /\ yielded = FALSE
        /\ erasing = NoErase
        /\ registry = NoRegistry
        /\ tasks = 0
        /\ client = NoClient
        /\ last = Boot
        /\ hist = <<>>
        /\ issued = {}
        /\ ops = 0
        /\ losses = 0

\* Manager::Initialize(area, flags); the flags are kept as last.rest
InitializeStep(reset, ignoreCorrupted) ==
    LET Done(r) ==
            /\ Finish(r.m, "Initialize", 0, Rec(0, <<reset, ignoreCorrupted>>, 0), FALSE,
                      NoSpan, r.res, 0)
            /\ hist' = <<[id |-> 0, ptr |-> NULL, pl |-> Rec(0, <<reset, ignoreCorrupted>>, 0)]>>
            /\ issued' = issued
    IN  Done(Initialize(Machine(-1, "fault"), reset, ignoreCorrupted))

\* Initialize is called when no collector task is pending
InitInitialize ==
    \E reset, ignoreCorrupted \in BOOLEAN :
        ops < MaxInitOps /\ ~collecting /\ InitializeStep(reset, ignoreCorrupted)
InitNew == ops < MaxInitOps /\ last.op # "Boot" /\ NewStep(65, 0, "fault")
InitEraseAll == ops < MaxInitOps /\ last.op # "Boot" /\ EraseAllStep(65)
InitCollector == ops < MaxInitOps /\ CollectorStep
NextInit == InitInitialize \/ InitNew \/ InitEraseAll \/ InitCollector
SpecInit == InitBoot /\ [][NextInit]_vars

\* the states of a block, derived from its header
StateEmpty(f, blk) == BlockIsEmpty(f, blk)
StateValid(f, blk) == MagicOf(f, blk) = Magic /\ GenerationOf(f, blk) # AllOnes
StateErasable(f, blk) == MagicOf(f, blk) = 0
StateHalfInitialized(f, blk) == MagicOf(f, blk) = Magic /\ GenerationOf(f, blk) = AllOnes
StateCorrupted(f, blk) ==
    ~(StateEmpty(f, blk) \/ StateValid(f, blk) \/ StateErasable(f, blk)
        \/ StateHalfInitialized(f, blk))
Initialized(l) == l.op = "Initialize" /\ l.rest # <<>>

FreePagesOfBlock(f, blk) ==
    IF StateEmpty(f, blk) THEN PagesPerBlock
    ELSE IF StateValid(f, blk) THEN Cardinality({ p \in PagesOf(blk) : PageIsEmpty(f, p) })
    ELSE 0
RECURSIVE FreePagesIn(_, _)
FreePagesIn(f, S) ==
    IF S = {} THEN 0
    ELSE LET blk == CHOOSE b \in S : TRUE
         IN  FreePagesOfBlock(f, blk) + FreePagesIn(f, S \ {blk})

\* C13: immediately after Initialize returns, pagesAvailable equals the number of empty
\* pages in Valid blocks (healed blocks included) plus PagesPerBlock for every Empty block
C13_FreePageCount ==
    Initialized(last) => pagesAvailable = FreePagesIn(flash, AllBlocks)

\* C14: Initialize with the Reset flag, whatever the medium held and whatever state the
\* manager was in, leaves every block Empty, no block in use (blkFirst = blkEnd),
\* pagesAvailable = PagesPerBlock * NumBlocks, and no collector task scheduled
C14_ResetInitialize ==
    (Initialized(last) /\ last.rest[1]) =>
        /\ \A blk \in AllBlocks : StateEmpty(flash, blk)
        /\ blkFirst = blkEnd
        /\ pagesAvailable = PagesPerBlock * NumBlocks
        /\ last.spawned = 0 /\ ~collecting

(***************************************************************************)
(* SpecBlocks: blocks are allocated one by one (Block::New) over a medium  *)
(* left by earlier use; the collector runs when it is scheduled, and       *)
(* Initialize may run again when no collector task is pending.             *)
(***************************************************************************)
MaxBlockOps == 5

\* Manager::NewBlock, called through Block::New
NewBlockStep ==
    LET Done(r) ==
            /\ Finish(r.m, "NewBlock", 0, Rec(0, <<>>, 0), FALSE, Span(r.blk, 0),
                      r.blk # NULL, 0)
            /\ hist' = Append(hist, [id |-> 0, ptr |-> r.blk, pl |-> Rec(0, <<>>, 0)])
            /\ issued' = issued
    IN  Done(NewBlock(Machine(-1, "fault")))

BlocksInitialize ==
    \E reset, ignoreCorrupted \in BOOLEAN :
        ops < MaxBlockOps /\ ~collecting /\ InitializeStep(reset, ignoreCorrupted)
BlocksNew == ops < MaxBlockOps /\ last.op # "Boot" /\ NewBlockStep
BlocksCollector == ops < MaxBlockOps /\ CollectorStep
NextBlocks == BlocksInitialize \/ BlocksNew \/ BlocksCollector
SpecBlocks == InitBoot /\ [][NextBlocks]_vars

\* Manager::UsedBlocks()
UsedBlocks(bf) == { blk \in AllBlocks : blk >= bf }
BlockWords(f, blk) == [i \in 0..(BlockSize \div 4 - 1) |-> WordAt(f, blk + 4 * i)]

\* C15: NewBlock returns the highest-addressed Empty block, leaves it Valid with
\* generation 1 and lowers blkFirst to it when it lies below (NULL, and nothing changes,
\* when no block is Empty); after Initialize with Reset the first NumBlocks calls return
\* the blocks from the highest down, every later call returns NULL, and UsedBlocks() then
\* holds all blocks
C15_BlockAllocation ==
    /\ [][last'.op = "NewBlock" =>
            LET Allocated(E) ==
                    IF E = {}
                    THEN last'.res.ptr = NULL /\ flash' = flash /\ blkFirst' = blkFirst
                    ELSE LET b == CHOOSE x \in E : \A y \in E : y <= x
                         IN  /\ last'.res.ptr = b
                             /\ StateValid(flash', b) /\ GenerationOf(flash', b) = 1
                             /\ \A p \in PagesOf(b) : PageIsEmpty(flash', p)
                             /\ blkFirst' = IF b < blkFirst THEN b ELSE blkFirst
                             /\ \A o \in AllBlocks \ {b} :
                                   BlockWords(flash', o) = BlockWords(flash, o)
            IN  Allocated({ blk \in AllBlocks : StateEmpty(flash, blk) })]_vars
    /\ []((hist # <<>> /\ hist[1].pl.rest[1]) =>
            /\ \A i \in 1..(Len(hist) - 1) :
                  hist[i + 1].ptr = IF i <= NumBlocks THEN blkEnd - i * BlockSize ELSE NULL
            /\ Len(hist) - 1 >= NumBlocks =>
                  /\ UsedBlocks(blkFirst) = AllBlocks
                  /\ \A blk \in AllBlocks : BlockIsValid(flash, blk) /\ StateValid(flash, blk))

\* after Initialize with Reset every block was allocated and a further call returned NULL
C15_BlockAllocationWitness ==
    /\ hist # <<>> /\ hist[1].pl.rest[1]
    /\ Len(hist) = NumBlocks + 2
    /\ last.op = "NewBlock" /\ last.res.ptr = NULL

\* C16: whenever NewPage returns NULL because no page can be allocated, RunCollector was
\* invoked during the failing call, so the collector is pending or running
\* (collecting = TRUE) when the caller receives the failure
C16_OutOfSpaceArmsCollector ==
    (last.op = "New" /\ ~last.ok) => (last.rc > 0 /\ collecting)

(***************************************************************************)
(* SpecRecover: CollectorDiscardOldest is registered at level 1 for id 65; *)
(* the application allocates pages of that id on a reset medium, and the   *)
(* scheduler runs the collector task whenever it is ready.                 *)
(***************************************************************************)
MaxRecoverOps == 14
Registered == <<[key |-> 65, level |-> 1, collector |-> "CollectorDiscardOldest"]>>

RecoverNew == ops < MaxRecoverOps /\ NewStep(65, 0, "fault")
\* the scheduler starts the collector task spawned by RunCollector
RecoverBegin ==
    /\ collecting /\ ~yielded
    /\ Finish(CollectorBegin(Machine(-1, "fault"), Registered), "Collector", 0,
              Rec(0, <<>>, 0), FALSE, NoSpan, TRUE, 0)
    /\ UNCHANGED <<hist, issued>>
\* the scheduler resumes the collector task after its async_yield
RecoverResume ==
    /\ collecting /\ yielded
    /\ Finish(CollectorResume(Machine(-1, "fault"), Registered), "Collector", 0,
              Rec(0, <<>>, 0), FALSE, NoSpan, TRUE, 0)
    /\ UNCHANGED <<hist, issued>>
NextRecover == RecoverNew \/ RecoverBegin \/ RecoverResume
\* a step of the collector task, RecoverBegin or RecoverResume: both count as an
\* operation and leave this record in last
CollectorRan == [NoOp EXCEPT !.op = "Collector"]
SchedulerRuns == collecting /\ ops' = ops + 1 /\ last' = CollectorRan
\* the scheduler runs a ready task until none is left (Scheduler::Run): the collector task
\* is ready from RunCollector until it clears collecting
SpecRecover == Init /\ [][NextRecover]_vars /\ WF_<<ops, last>>(SchedulerRuns)

MediumFull == \A p \in AllPages : PageIsValid(flash, p) /\ PageIdOf(flash, p) = 65
Recovered == ~ULT(pagesAvailable, PagesKeptFree)

\* C17: with CollectorDiscardOldest registered at level 1 for the id and every page of the
\* medium allocated to it, the scheduler running the collector eventually makes
\* pagesAvailable >= PagesKeptFree and the collector quiescent; and whenever
\* pagesAvailable >= PagesKeptFree, Page::New for the id returns a page
C17_FullMediumRecovers ==
    /\ MediumFull ~> (Recovered /\ ~collecting)
    /\ [][(last'.op = "New" /\ Recovered) => last'.ok]_vars

\* the medium was full, the collector discarded the oldest pages and erased their block,
\* and a page has been allocated in the block that was erased
C17_FullMediumRecoversWitness ==
    /\ last.op = "New" /\ last.ok
    /\ GenerationOf(flash, BlockFromPtr(last.res.ptr)) = 2
    /\ \E blk \in AllBlocks :
          /\ GenerationOf(flash, blk) = 1
          /\ \A p \in PagesOf(blk) : PageIsValid(flash, p)

\* C18: when the collector runs EraseBlocks, every Erasable block whose generation g is not
\* zero (a block that was Valid with generation g before it was marked) is afterwards
\* Valid with generation g + 1 and all its pages Empty, and pagesAvailable has grown by
\* PagesPerBlock for every block erased
C18_GenerationBookkeeping ==
    [][(last'.op = "Collector" /\ blocksToErase) =>
          LET Erased(E) ==
                  /\ \A blk \in E :
                        GenerationOf(flash, blk) # 0 =>
                            /\ StateValid(flash', blk)
                            /\ GenerationOf(flash', blk) = GenerationOf(flash, blk) + 1
                            /\ \A p \in PagesOf(blk) : PageIsEmpty(flash', p)
                  /\ pagesAvailable' = pagesAvailable + PagesPerBlock * Cardinality(E)
                  /\ ~blocksToErase'
          IN  Erased({ blk \in AllBlocks : StateErasable(flash, blk) })]_vars

\* the collector has just erased a block that was in its second generation and whose pages
\* were all shredded by EraseAll
C18_GenerationBookkeepingWitness ==
    /\ last.op = "Collector"
    /\ \E blk \in AllBlocks :
          /\ StateValid(flash, blk) /\ GenerationOf(flash, blk) = 3
          /\ \A p \in PagesOf(blk) : PageIsEmpty(flash, p)
    /\ ~ULT(pagesAvailable, PagesPerBlock)

(***************************************************************************)
(* SpecNotify: records are added, replaced and deleted on two page ids;    *)
(* every call of Manager::Notify is recorded with the flash it saw.        *)
(***************************************************************************)
MaxNotifyOps == 3
NotifyPayloads == { Rec(1, <<7>>, 8), Rec(1, <<9>>, 8), Rec(2, <<7, 7, 7, 9>>, 20) }
NotifyAdd ==
    \E var \in BOOLEAN, id \in Ids, pl \in NotifyPayloads :
        ops < MaxNotifyOps /\ AddStep(var, id, pl, -1, "fault")
NotifyReplace ==
    \E var \in BOOLEAN, id \in Ids, pl \in NotifyPayloads :
        ops < MaxNotifyOps /\ ReplaceStep(var, id, pl, -1, "fault")
NotifyDelete ==
    \E id \in Ids, key \in Keys :
        ops < MaxNotifyOps /\ DeleteStep(id, key, -1, "fault")
NextNotify == NotifyAdd \/ NotifyReplace \/ NotifyDelete
SpecNotify == Init /\ [][NextNotify]_vars

IsWrite(l) == l.op \in {"AddFixed", "AddVar", "ReplaceFixed", "ReplaceVar", "Delete"}

\* C19 (whole statement): a call of Add*, Replace* or Delete on page id P invokes
\* Notify(P) exactly once if it changed the records findable on P and not at all if it
\* changed nothing; it never notifies another id
C19_NotifyExactlyOnce ==
    [][LET Changed(id) ==
               Listing(flash', blkFirst', id, 0) # Listing(flash, blkFirst, id, 0)
       IN  IsWrite(last') =>
               last'.ntf = IF Changed(last'.id) THEN <<last'.id>> ELSE <<>>]_vars

\* C19: a call of Add*, Replace* or Delete that changed nothing at all (it left every
\* word of the flash as it was) invokes no notifier
C19_UnchangedNoNotify ==
    [][(IsWrite(last') /\ flash' = flash /\ blkFirst' = blkFirst) => last'.ntf = <<>>]_vars

\* a Replace that wrote a new record: the span it returned lies where the flash was erased
WroteNew(f, l) == IsReplace(l) /\ l.res.ptr # NULL /\ WordAt(f, l.res.ptr - 4) = AllOnes

\* C20: a Replace(P, K, v) that writes a new record emits one notification, for P, and
\* when that notifier runs each enumeration for key K yields exactly one record, holding v
C20_ReplaceNotifyOrder ==
    [][WroteNew(flash, last') =>
        /\ last'.ntf = <<last'.id>>
        /\ LET S(f, e) == Len(e) = 1 /\ SpanHolds(f, e[1], LastPayload(last'))
               At(f) == /\ S(f, EnumUnordered(f, blkFirst', last'.id, last'.first))
                        /\ S(f, EnumOldest(f, blkFirst', last'.id, last'.first))
                        /\ S(f, EnumNewest(f, blkFirst', last'.id, last'.first))
           IN  \A i \in DOMAIN last'.seen : At(last'.seen[i])]_vars

\* the records of page p, as FindForwardNextImpl walks them without a next page
RecordsOn(f, p) ==
    ForwardChain(f, NULL, FindForwardNextImpl(f, NULL, p, NULL, 0, "none"), 0, "none")

\* Page::MoveRecords(p, limit) called on page src; last.count is the number of records
\* that left page src, last.res the pair of pages
MoveRecordsStep(src, p, limit) ==
    LET Done(r) ==
            /\ Finish(r.m, "MoveRecords", PageIdOf(flash, src), Rec(0, <<>>, 0), FALSE,
                      Span(src, p), r.res,
                      Len(RecordsOn(flash, src)) - Len(RecordsOn(r.m.f, src)))
            /\ UNCHANGED <<hist, issued>>
    IN  Done(MoveRecords(Machine(-1, "fault"), src, p, limit))

(***************************************************************************)
(* SpecMove: records are added to pages of one id, pages are allocated and *)
(* the records of one page are moved to another page of the same id.       *)
(***************************************************************************)
MaxMoveOps == 4
MovePayloads == { Rec(1, <<7>>, 8), Rec(2, <<9>>, 8), Rec(1, <<7, 9>>, 12) }
MoveAdd ==
    \E var \in BOOLEAN, pl \in MovePayloads :
        ops < MaxMoveOps /\ AddStep(var, 65, pl, -1, "fault")
MoveNew ==
    \E recordSize \in {0, 8, 12} :
        ops < MaxMoveOps /\ NewStep(65, recordSize, "fault")
MoveMove ==
    \E src \in AllPages, p \in AllPages, limit \in {0, PagePayload \div 2} :
        /\ ops < MaxMoveOps
        /\ src # p /\ PageIsValid(flash, src) /\ PageIsValid(flash, p)
        /\ PageIdOf(flash, src) = PageIdOf(flash, p)
        /\ MoveRecordsStep(src, p, limit)
NextMove == MoveAdd \/ MoveNew \/ MoveMove
SpecMove == Init /\ [][NextMove]_vars

\* C21: a MoveRecords call that moved at least one record invokes Notify(id) exactly
\* once, and a call that moved no record invokes no notifier
C21_MoveRecordsNotifies ==
    [][last'.op = "MoveRecords" =>
        last'.ntf = IF last'.count > 0 THEN <<last'.id>> ELSE <<>>]_vars

(***************************************************************************)
(* Version tracking (Manager.cpp, VersionTracker.h, Settings.cpp)          *)
(***************************************************************************)
\* Manager::RegisterNotifier
RegisterNotifier(m, type) == [m EXCEPT !.reg.notifiers = Append(@, [key |-> type])]

\* Manager::RegisterVersionTracker(pageType, &version) for the version of the Settings
\* object; calls counts the Notify(pageType) calls from here on
RegisterVersionTracker(m, pageType) ==
    RegisterNotifier([m EXCEPT !.cl.version = 1, !.cl.tracked = pageType, !.cl.calls = 0],
                     pageType)

\* (uint16_t) of an unsigned
Low16(v) == v % 65536

\* Settings::InitVersionTracking(ver): [m, res]
InitVersionTracking(m, pageId) ==
    [m |-> RegisterVersionTracker([m EXCEPT !.cl.ver = 1], pageId), res |-> FALSE]

\* Settings::IsCurrentVersion(ver) for the Setting's uint16_t version: [m, res]
IsCurrentVersion(m, pageId) ==
    IF m.cl.version = AllOnes THEN InitVersionTracking(m, pageId)
    ELSE IF m.cl.ver = Low16(m.cl.version) THEN [m |-> m, res |-> TRUE]
    ELSE [m |-> [m EXCEPT !.cl.ver = Low16(m.cl.version)], res |-> FALSE]

\* n successive calls of Manager::Notify(id), as n writes to pages of the id make them
NotifyTimes(m, id, n) ==
    LET k == Cardinality({ i \in DOMAIN m.reg.notifiers : m.reg.notifiers[i].key = id })
    IN  [m EXCEPT !.ntf = Append(@, id), !.seen = Append(@, m.f),
                  !.cl.version = @ + n * k,
                  !.cl.calls = IF m.cl.tracked = id THEN @ + n ELSE @]

(***************************************************************************)
(* SpecVersion: a Settings object on page id 65 polls IsCurrentVersion     *)
(* (which registers its version tracker on first use) while records are    *)
(* added to and deleted from pages 65 and 66 and the manager is            *)
(* initialized again.  hist holds how many Notify(65) calls the Setting    *)
(* had been told of when it last polled.                                   *)
(***************************************************************************)
MaxVersionOps == 4
VersionPoll ==
    LET Done(r) ==
            /\ Finish(r.m, "IsCurrentVersion", 65, Rec(0, <<>>, 0), FALSE, NoSpan, r.res, 0)
            /\ hist' = <<r.m.cl.calls>>
            /\ issued' = issued
    IN  ops < MaxVersionOps /\ Done(IsCurrentVersion(Machine(-1, "fault"), 65))
VersionAdd ==
    \E id \in Ids :
        /\ ops < MaxVersionOps
        /\ AddStep(TRUE, id, Rec(1, <<7>>, 8), -1, "fault")
VersionDelete ==
    \E id \in Ids :
        ops < MaxVersionOps /\ DeleteStep(id, 1, -1, "fault")
VersionNotifyMany ==
    \E id \in Ids :
        /\ ops < MaxVersionOps
        /\ Finish(NotifyTimes(Machine(-1, "fault"), id, 65536), "Notify", id,
                  Rec(0, <<>>, 0), FALSE, NoSpan, TRUE, 65536)
        /\ UNCHANGED <<hist, issued>>
VersionInitialize ==
    LET Done(r) ==
            /\ Finish(r.m, "Initialize", 0, Rec(0, <<FALSE, FALSE>>, 0), FALSE, NoSpan,
                      r.res, 0)
            /\ UNCHANGED <<hist, issued>>
    IN  ops < MaxVersionOps /\ ~collecting
        /\ Done(Initialize(Machine(-1, "fault"), FALSE, FALSE))
NextVersion ==
    VersionPoll \/ VersionAdd \/ VersionDelete \/ VersionNotifyMany \/ VersionInitialize
SpecVersion == Init /\ [][NextVersion]_vars

Registered65 == client.tracked = 65

\* C22: RegisterVersionTracker(id, &v) sets v to 1 and from then on v is 1 plus the
\* number of Notify(id) calls made since
C22_VersionCountsNotifications ==
    Registered65 => client.version = 1 + client.calls

\* C22 (polling): IsCurrentVersion(ver) returns true iff ver is the current version,
\* otherwise it stores the current version into ver; a caller told that its version is
\* current has missed no notification
C22_CurrentMissedNothing ==
    [][(last'.op = "IsCurrentVersion" /\ Registered65) =>
        /\ last'.ok = (client.ver = client.version)
        /\ client'.ver = client.version
        /\ last'.ok => client.calls = hist[1]]_vars

(***************************************************************************)
(* Manager::RegisterCollector (Manager.cpp)                                *)
(***************************************************************************)
\* a faulty scan that stops at the first entry of the same level
RECURSIVE RegisterScan_AtLevel(_, _, _, _)
RegisterScan_AtLevel(collectors, i, key, level) ==
    IF i > Len(collectors) THEN [i |-> i, found |-> FALSE]
    ELSE IF collectors[i].key = key /\ collectors[i].level = level
    THEN [i |-> i, found |-> TRUE]
    ELSE IF collectors[i].level >= level THEN [i |-> i, found |-> FALSE]
    ELSE RegisterScan_AtLevel(collectors, i + 1, key, level)

\* the position RegisterCollector stops at: [i, found]; found means an entry with the
\* same key and level is at i, otherwise the new entry is inserted before position i
RECURSIVE RegisterScan(_, _, _, _)
RegisterScan(collectors, i, key, level) ==
    IF i > Len(collectors) THEN [i |-> i, found |-> FALSE]
    ELSE IF collectors[i].key = key /\ collectors[i].level = level
    THEN [i |-> i, found |-> TRUE]
    ELSE IF collectors[i].level > level THEN [i |-> i, found |-> FALSE]
    ELSE RegisterScan(collectors, i + 1, key, level)

\* Manager::RegisterCollector(key, level, delegate)
RegisterCollector(m, key, level, delegate) ==
    LET At(s) ==
            IF s.found THEN [m EXCEPT !.reg.collectors[s.i].collector = delegate]
            ELSE [m EXCEPT !.reg.collectors =
                      SubSeq(@, 1, s.i - 1)
                      \o <<[key |-> key, level |-> level, collector |-> delegate]>>
                      \o SubSeq(@, s.i, Len(@))]
    IN  At(RegisterScan(m.reg.collectors, 1, key, level))

(***************************************************************************)
(* SpecRegister: collectors are registered in any order.  hist holds the   *)
(* registrations in the order each {key, level} was first registered, with *)
(* the delegate registered last for it.                                    *)
(***************************************************************************)
MaxRegisterOps == 4
Levels == 0..2
Delegates == {"CollectorDiscardOldest", "CollectorCleanup"}
FirstRegistered(h, key, level, delegate) ==
    IF \E i \in DOMAIN h : h[i].key = key /\ h[i].level = level
    THEN [i \in DOMAIN h |->
            IF h[i].key = key /\ h[i].level = level
            THEN [h[i] EXCEPT !.collector = delegate] ELSE h[i]]
    ELSE Append(h, [key |-> key, level |-> level, collector |-> delegate])
RegisterStep ==
    \E key \in Ids, level \in Levels, delegate \in Delegates :
        /\ ops < MaxRegisterOps
        /\ Finish(RegisterCollector(Machine(-1, "fault"), key, level, delegate),
                  "RegisterCollector", key, Rec(0, <<delegate>>, 0), FALSE, NoSpan, TRUE,
                  level)
        /\ hist' = FirstRegistered(hist, key, level, delegate)
        /\ issued' = issued
NextRegister == RegisterStep
SpecRegister == Init /\ [][NextRegister]_vars

\* position of the registration of {key, level} in the order of first registration
FirstAt(h, e) == CHOOSE i \in DOMAIN h : h[i].key = e.key /\ h[i].level = e.level

\* C23: the collector list is sorted by ascending level, entries of equal level are in the
\* order of their first registration, no two entries share {key, level}, every entry
\* holds the delegate registered last for it, and re-registering an existing {key, level}
\* changes neither the length nor the order of the list
C23_CollectorRegistry ==
    LET c == registry.collectors
    IN  /\ Len(c) = Len(hist)
        /\ \A i \in DOMAIN c : \E j \in DOMAIN hist : hist[j] = c[i]
        /\ \A i, j \in DOMAIN c :
              i < j => /\ c[i].level <= c[j].level
                       /\ ~(c[i].key = c[j].key /\ c[i].level = c[j].level)
                       /\ c[i].level = c[j].level => FirstAt(hist, c[i]) < FirstAt(hist, c[j])

\* four registrations, one of them of a {key, level} registered before, left three
\* entries: two of one level behind an entry of a lower level that was registered last,
\* and the entry registered by the last call holds its delegate
C23_CollectorRegistryWitness ==
    LET c == registry.collectors
    IN  /\ last.op = "RegisterCollector"
        /\ Len(c) = 3 /\ ops = 4
        /\ c[1].level < c[2].level /\ c[2].level = c[3].level
        /\ FirstAt(hist, c[1]) = 3
        /\ \E i \in DOMAIN c :
              c[i].key = last.id /\ c[i].level = last.count /\ c[i].collector = last.rest[1]

(***************************************************************************)
(* SpecCollect: the manager is initialized over a medium holding pages of  *)
(* ids 65 and 66, collectors are registered, pages are allocated and the   *)
(* scheduler runs the Collector task, whose two steps are separated by its *)
(* async_yield.  Initialize runs when no collector task is pending.  The   *)
(* calls of the application are bounded, the steps of the task are not.    *)
(***************************************************************************)
MaxCollectOps == 5
CollectShapes ==
    << [magic |-> Magic, gen |-> 1,       pages |-> <<"E", "E", "E", "E">>],
       [magic |-> Magic, gen |-> AllOnes, pages |-> <<"E", "E", "E", "E">>],
       [magic |-> Magic, gen |-> 2,       pages |-> <<"V", "V", "V", "V">>],
       [magic |-> Magic, gen |-> 1,       pages |-> <<"V", "W", "V", "W">>],
       [magic |-> Magic, gen |-> 1,       pages |-> <<"W", "V", "E", "E">>] >>
CollectRegistrations ==
    { [key |-> 65, level |-> 0, collector |-> "CollectorCleanup"],
      [key |-> 65, level |-> 1, collector |-> "CollectorDiscardOldest"],
      [key |-> 66, level |-> 1, collector |-> "CollectorDiscardOldest"] }
CollectBoot ==
    \E c \in [0..(NumBlocks - 1) -> 1..Len(CollectShapes)] :
        /\ flash = MediumOf(CollectShapes, c)
        /\ blkFirst = NULL
        /\ pagesAvailable = 0
        /\ collecting = FALSE
        /\ blocksToErase = FALSE
        /\ yielded = FALSE
        /\ erasing = NoErase
        /\ registry = NoRegistry
        /\ tasks = 0
        /\ client = NoClient
        /\ last = Boot
        /\ hist = <<>>
        /\ issued = {}
        /\ ops = 0
        /\ losses = 0
CollectInitialize ==
    /\ ops < MaxCollectOps /\ ~collecting /\ last.op = "Boot"
    /\ InitializeStep(FALSE, FALSE)
CollectRegister ==
    \E c \in CollectRegistrations :
        /\ ops < MaxCollectOps /\ last.op \in {"Initialize", "RegisterCollector"}
        /\ Finish(RegisterCollector(Machine(-1, "fault"), c.key, c.level, c.collector),
                  "RegisterCollector", c.key, Rec(0, <<c.collector>>, 0), FALSE, NoSpan,
                  TRUE, c.level)
        /\ UNCHANGED <<hist, issued>>
CollectNew ==
    \E id \in Ids :
        ops < MaxCollectOps /\ last.op # "Boot" /\ NewStep(id, 0, "fault")
\* the Collector task from its start to its async_yield or its end
CollectBegin ==
    /\ collecting /\ ~yielded
    /\ Finish(CollectorBegin(Machine(-1, "fault"), registry.collectors), "CollectorBegin", 0,
              Rec(0, <<>>, 0), FALSE, NoSpan, TRUE, 0)
    /\ UNCHANGED <<hist, issued>>
\* the Collector task resumed after its async_yield
CollectResume ==
    /\ collecting /\ yielded
    /\ Finish(CollectorResume(Machine(-1, "fault"), registry.collectors), "CollectorResume",
              0, Rec(0, <<>>, 0), FALSE, NoSpan, TRUE, 0)
    /\ UNCHANGED <<hist, issued>>
NextCollect ==
    CollectInitialize \/ CollectRegister \/ CollectNew \/ CollectBegin \/ CollectResume
SpecCollect == CollectBoot /\ [][NextCollect]_vars

\* C24 (the counter): a collector of level >= 1 is invoked only while
\* pagesAvailable < PagesKeptFree, and the first pass of a collection invokes level-0
\* collectors only
C24_DestructiveGatedByCounter ==
    /\ \A i \in DOMAIN last.inv :
          last.inv[i].level >= 1 => ULT(last.inv[i].avail, PagesKeptFree)
    /\ last.op = "CollectorBegin" => \A i \in DOMAIN last.inv : last.inv[i].level = 0

\* C24: a collector of level >= 1 is invoked only while pagesAvailable < PagesKeptFree,
\* the first pass of a collection invokes level-0 collectors only, and no page is
\* discarded by a collector of level >= 1 while at least PagesKeptFree pages are free
C24_DestructiveGated ==
    /\ C24_DestructiveGatedByCounter
    /\ \A i \in DOMAIN last.inv :
          (last.inv[i].level >= 1 /\ last.inv[i].page # NULL)
              => FreePagesIn(last.inv[i].f, AllBlocks) < PagesKeptFree

(***************************************************************************)
(* SpecFault: records are added to a medium that holds pages of id 65;     *)
(* during an Add one word programming step may fail transiently, so that   *)
(* Flash::WriteWord reads back a word other than the one it wrote          *)
(***************************************************************************)
MaxFaultOps == 2
MaxFaultAt == 6
Junks == {"none", "half", "bit"}
\* no failure, or the failure of one programming step
Faults ==
    {[at |-> -1, junk |-> "none", reports |-> FALSE]}
        \cup { [at |-> k, junk |-> j, reports |-> r] :
                   k \in 1..MaxFaultAt, j \in Junks, r \in BOOLEAN }
FaultShapes ==
    << [magic |-> Magic,   gen |-> 1,       pages |-> <<"E", "E", "E", "E">>],
       [magic |-> AllOnes, gen |-> AllOnes, pages |-> <<"E", "E", "E", "E">>],
       [magic |-> Magic,   gen |-> 2,       pages |-> <<"V", "V", "V", "V">>],
       [magic |-> Magic,   gen |-> 1,       pages |-> <<"V", "V", "V", "E">>] >>
FaultPayloads == { Rec(1, <<7>>, 8), Rec(2, <<PadWord(7, 2)>>, 6), Rec(1, <<7, 9>>, 12) }

\* the manager after Manager::Initialize over a medium of FaultShapes
FaultInit ==
    \E c \in [0..(NumBlocks - 1) -> 1..Len(FaultShapes)] :
        LET r == Initialize(
                    [f |-> MediumOf(FaultShapes, c), fuel |-> -1, ub |-> "fault",
                     blkFirst |-> NULL, pagesAvailable |-> 0, collecting |-> FALSE,
                     blocksToErase |-> FALSE, rc |-> 0, spawned |-> 0, ntf |-> <<>>,
                     reg |-> NoRegistry, cl |-> NoClient, tasks |-> 0, erasing |-> NoErase,
                 fault |-> -1,
                     junk |-> "none", reports |-> FALSE, failed |-> <<>>],
                    FALSE, FALSE)
        IN  /\ flash = r.m.f
            /\ blkFirst = r.m.blkFirst
            /\ pagesAvailable = r.m.pagesAvailable
            /\ collecting = r.m.collecting
            /\ blocksToErase = r.m.blocksToErase
            /\ yielded = FALSE
            /\ erasing = NoErase
            /\ registry = NoRegistry
            /\ tasks = r.m.tasks
            /\ client = NoClient
            /\ last = NoOp
            /\ hist = <<>>
            /\ issued = {}
            /\ ops = 0
            /\ losses = 0

\* Page::AddFixed / Page::AddVar during which programming step number fault fails
AddFaultStep(var, id, pl, fault, junk, reports) ==
    LET Done(r) ==
            /\ Finish(r.m, IF var THEN "AddVar" ELSE "AddFixed", id, pl, var, r.res,
                      r.res.ptr # NULL, 0)
            /\ hist' = IF r.res.ptr # NULL /\ ~Dead(r.m)
                       THEN Append(hist, [id |-> id, ptr |-> r.res.ptr, pl |-> pl])
                       ELSE hist
            /\ issued' = issued \cup {[id |-> id, pl |-> pl]}
    IN  Done(AddImpl([Machine(-1, "scan") EXCEPT !.fault = fault, !.junk = junk,
                                              !.reports = reports],
                     id, pl.first, pl.rest, pl.len, var, FALSE))
FaultAddFixed ==
    \E pl \in FaultPayloads, fault \in Faults :
        ops < MaxFaultOps /\ AddFaultStep(FALSE, 65, pl, fault.at, fault.junk, fault.reports)
FaultAddVar ==
    \E pl \in FaultPayloads, fault \in Faults :
        ops < MaxFaultOps /\ AddFaultStep(TRUE, 65, pl, fault.at, fault.junk, fault.reports)
NextFault == FaultAddFixed \/ FaultAddVar
SpecFault == FaultInit /\ [][NextFault]_vars

\* no page of the medium can be allocated: no valid block has an empty page and no
\* block is empty
NoPageLeft(f) ==
    /\ \A blk \in AllBlocks : ~BlockIsEmpty(f, blk)
    /\ \A blk \in AllBlocks : BlockIsValid(f, blk) => FreePagesOfBlock(f, blk) = 0

\* C25: when a write inside WriteImpl reported failure during an Add, every slot it
\* failed for has a leading word (first word, or length word of a variable record) that
\* is zero or all-ones and is returned by no Find enumeration; the record was written
\* to a later slot of the page or to another page, and the Add returned an invalid span
\* only if no page could be allocated
C25_WriteFailureContained ==
    (last.op \in {"AddFixed", "AddVar"} /\ last.failed # <<>>) =>
        /\ \A i \in DOMAIN last.failed :
              /\ WordAt(flash, last.failed[i].lead) \in {0, AllOnes}
              /\ \A fw \in {0, last.first} :
                    \A r \in AllEnums(last.id, fw) : r.ptr # last.failed[i].ptr
              /\ last.res.ptr # NULL =>
                    \/ PageFromPtr(last.res.ptr) # PageFromPtr(last.failed[i].ptr)
                    \/ last.res.ptr > last.failed[i].ptr
        /\ last.res.ptr = NULL => NoPageLeft(flash)

\* an Add for which the write of a record's first word or length word reported failure
\* returned a valid span on the same page
C25_WriteFailureWitness ==
    /\ last.op \in {"AddFixed", "AddVar"} /\ last.failed # <<>>
    /\ last.res.ptr # NULL
    /\ PageFromPtr(last.res.ptr) = PageFromPtr(last.failed[1].ptr)

\* C26: an AddFixed that returns a valid span wrote into the newest page of the id if
\* that page was a fixed-size page whose recordSize holds the aligned record and which
\* had a free slot, and otherwise into a page allocated by the call, of
\* recordSize = RequiredAligned(totalLength); an AddVar that returns a valid span wrote
\* into a variable-layout page.  So a record of a fixed caller is never in a
\* variable-layout page, nor one of a variable caller in a fixed-size page
C26_StickyLayout ==
    [][(last'.op \in {"AddFixed", "AddVar"} /\ last'.res.ptr # NULL) =>
          LET p == PageFromPtr(last'.res.ptr)
              old == NewestFirst(flash, blkFirst, last'.id)
              req == RequiredAligned(last'.len)
              Fits(free) == free # NULL /\ free + RecordSizeOf(flash, old) <= PageDataEnd(old)
          IN  /\ last'.var => RecordSizeOf(flash', p) = 0
              /\ ~last'.var =>
                    /\ RecordSizeOf(flash', p) # 0
                    /\ IF /\ old # NULL
                          /\ RecordSizeOf(flash, old) # 0
                          /\ req <= RecordSizeOf(flash, old)
                          /\ Fits(FindFree(flash, old))
                       THEN p = old
                       ELSE ~PageIsValid(flash, p) /\ RecordSizeOf(flash', p) = req]_vars

\* the scheduler runs a ready task until none is left (Scheduler::Run): the collector
\* task, which is ready from RunCollector until it clears collecting, gets its next step
CollectorTaskRuns == collecting /\ ops' = ops + 1
SpecCollectFair == SpecCollect /\ WF_ops(CollectorTaskRuns)

\* C27: once the Collector task is scheduled it eventually finishes and clears
\* collecting; when it does, either pagesAvailable >= PagesKeptFree, or its last
\* destructive pass collected no page and no block is pending erase
C27_CollectorQuiesces ==
    /\ collecting ~> ~collecting
    /\ [][(collecting /\ ~collecting') =>
             /\ last'.op \in {"CollectorBegin", "CollectorResume"}
             /\ \/ ~ULT(pagesAvailable', PagesKeptFree)
                \/ /\ last'.op = "CollectorResume"
                   /\ \A i \in DOMAIN last'.inv : last'.inv[i].page = NULL
                   /\ ~blocksToErase']_vars

\* the Collector task ended short of PagesKeptFree free pages, after a destructive pass
\* in which a registered collector of level 1 was asked and returned no page
C27_CollectorQuiescesWitness ==
    /\ last.op = "CollectorResume" /\ ~collecting
    /\ ULT(pagesAvailable, PagesKeptFree)
    /\ \E i \in DOMAIN last.inv : last.inv[i].level = 1

\* C29: in a destructive pass of Collect every level-0 collector is invoked until it
\* returns no page, and once a collector of level >= 1 has returned a page no further
\* collector is invoked in that pass, so the pass discards at most one page through
\* collectors of level >= 1
C29_OneDestructiveStep ==
    last.op = "CollectorResume" =>
        /\ \A i \in DOMAIN last.inv :
              (last.inv[i].level = 0 /\ last.inv[i].page # NULL) =>
                  /\ i < Len(last.inv)
                  /\ last.inv[i + 1].key = last.inv[i].key /\ last.inv[i + 1].level = 0
        /\ \A i \in DOMAIN last.inv :
              (last.inv[i].level >= 1 /\ last.inv[i].page # NULL) => i = Len(last.inv)

(***************************************************************************)
(* SpecSingle: as SpecCollect, but the application may call Initialize at  *)
(* any time, also while the Collector task is pending or suspended at its  *)
(* async_yield.  The program is followed for as long as the Collector task *)
(* that collecting stands for is the only one.                             *)
(***************************************************************************)
OneTask == tasks = (IF collecting THEN 1 ELSE 0)
SingleInitialize == ops < MaxCollectOps /\ OneTask /\ InitializeStep(FALSE, FALSE)
SingleRegister == OneTask /\ CollectRegister
SingleNew == OneTask /\ CollectNew
SingleBegin == OneTask /\ CollectBegin
SingleResume == OneTask /\ CollectResume
NextSingle ==
    SingleInitialize \/ SingleRegister \/ SingleNew \/ SingleBegin \/ SingleResume
SpecSingle == CollectBoot /\ [][NextSingle]_vars

\* C30: at most one Collector task is pending or running, collecting is true for as long
\* as a task is, and a call of RunCollector spawns a task only if collecting was false
C30_SingleCollector ==
    /\ tasks <= 1
    /\ tasks = 1 => collecting
    /\ last.spawned <= 1

(***************************************************************************)
(* Settings (Settings.h, Settings.cpp, Storage.h): one Setting of a        *)
(* Settings object on page id 65; its value is one word, the default value *)
(* lies outside the flash                                                  *)
(***************************************************************************)
SettingId == 1
DefaultPtr == -2
DefaultWord == 5
\* SettingSpec::DefaultValue / SettingSpec::ValueLength
DefaultValue == Span(DefaultPtr, 4)
ValueLength == 4

\* VariableUniqueKeyStorage::Get(key)
StorageGet(m, pageId, key) ==
    OffsetPackedData(FindUnorderedFirst(m.f, m.blkFirst, pageId, key), 4)

\* VariableUniqueKeyStorage::Set(key, data): [m, res]
StorageSet(m, pageId, key, data) ==
    LET Stored(r) == [m |-> r.m, res |-> OffsetPackedData(r.res, 4)]
    IN  Stored(ReplaceImpl(m, pageId, key, data, 4 * Len(data) + 4, TRUE))

\* Setting::Load: [m, res]
Load(m, pageId) ==
    LET Loaded(val) ==
            [m |-> [m EXCEPT !.cl.notify = IF val # m.cl.value THEN TRUE ELSE @,
                             !.cl.value = val],
             res |-> val]
        Got(val) ==
            Loaded(IF val.ptr = NULL \/ val.len < ValueLength THEN DefaultValue ELSE val)
    IN  Got(StorageGet(m, pageId, SettingId))

\* Setting::GetImpl: [m, res]
GetImpl(m, pageId) ==
    LET Checked(r) ==
            IF r.res THEN [m |-> r.m, res |-> r.m.cl.value] ELSE Load(r.m, pageId)
    IN  Checked(IsCurrentVersion(m, pageId))

\* Setting::SetImpl(Span value): the assignment is to the parameter value, which hides
\* the member Setting::value
SetImpl(m, pageId, data) == StorageSet(m, pageId, SettingId, data)

\* the words a span returned by Get refers to
SpanWords(f, s) ==
    IF s.ptr = DefaultPtr THEN <<DefaultWord>>
    ELSE IF s.ptr = NULL THEN <<>>
    ELSE [i \in 1..(s.len \div 4) |-> WordAt(f, s.ptr + 4 * (i - 1))]

(***************************************************************************)
(* SpecSettings: the Setting is read and written, and the manager is       *)
(* initialized again when no collector task is pending                     *)
(***************************************************************************)
MaxSettingsOps == 4
SettingValues == { <<7>>, <<9>> }
SettingsGet ==
    LET Done(r) ==
            /\ Finish(r.m, "Get", 65, Rec(SettingId, <<>>, 0), TRUE, r.res, TRUE, 0)
            /\ UNCHANGED <<hist, issued>>
    IN  ops < MaxSettingsOps /\ Done(GetImpl(Machine(-1, "fault"), 65))
SettingsSet ==
    \E v \in SettingValues :
        LET Done(r) ==
                /\ Finish(r.m, "Set", 65, Rec(SettingId, v, 8), TRUE, r.res,
                          r.res.ptr # NULL, 0)
                /\ UNCHANGED <<hist, issued>>
        IN  ops < MaxSettingsOps /\ Done(SetImpl(Machine(-1, "fault"), 65, v))
SettingsInitialize ==
    ops < MaxSettingsOps /\ ~collecting /\ InitializeStep(FALSE, FALSE)
NextSettings == SettingsGet \/ SettingsSet \/ SettingsInitialize
SpecSettings == Init /\ [][NextSettings]_vars

\* C28 (the read): a Get that follows a Set(v) which stored v returns a span whose
\* bytes are those of v
C28_GetAfterSet ==
    [][(last.op = "Set" /\ last.ok /\ last'.op = "Get") =>
          SpanWords(flash', last'.res) = last.rest]_vars

\* C28: after a Set(v) that stored v, the value cached by the Setting is the span the
\* storage returned, which holds the bytes of v
C28_SetUpdatesCache ==
    (last.op = "Set" /\ last.ok) =>
        /\ SpanWords(flash, last.res) = last.rest
        /\ client.value = last.res

(***************************************************************************)
(* Manager::EraseBlocks as the resumable task it is: it runs to its next   *)
(* await of Flash::ErasePageAsync, the driver erases the block (or gives   *)
(* up after its timeout), and EraseBlocks resumes behind the await.        *)
(***************************************************************************)
\* the for loop of EraseBlocks from block blk to the next await, or to its end
RECURSIVE EraseBlocksScan(_, _)
EraseBlocksScan(m, blk) ==
    IF blk = blkEnd THEN [m EXCEPT !.blocksToErase = FALSE, !.erasing = NoErase]
    ELSE IF BlockIsErasable(m.f, blk)
    THEN [m EXCEPT !.erasing = [block |-> blk, gen |-> GenerationOf(m.f, blk),
                                phase |-> "await"]]
    ELSE EraseBlocksScan(m, blk + BlockSize)

\* the PreSleep callback of Flash::ErasePageAsync: the block is erased and done is set
ErasePageAsyncDone(m) ==
    [m EXCEPT !.f = EraseRange(@, m.erasing.block), !.erasing.phase = "done"]

\* a faulty EraseBlocks that counts the pages of a block it could not format
EraseBlocksErased_CountFailed(m) ==
    LET Next(m1) == EraseBlocksScan([m1 EXCEPT !.pagesAvailable = @ + PagesPerBlock],
                                    m.erasing.block + BlockSize)
    IN  IF m.erasing.gen = 0 THEN Next(m)
        ELSE Next(BlockFormat(m, m.erasing.block, m.erasing.gen + 1).m)

\* EraseBlocks resumed after ErasePageAsync returned true
EraseBlocksErased(m) ==
    LET Wrong(m1) ==
            EraseBlocksScan(ShredWord(ShredWord(m1, m.erasing.block + 4), m.erasing.block),
                            m.erasing.block + BlockSize)
        Formatted(fm) ==
            IF fm.ok
            THEN EraseBlocksScan([fm.m EXCEPT !.pagesAvailable = @ + PagesPerBlock],
                                 m.erasing.block + BlockSize)
            ELSE Wrong(fm.m)
    IN  IF ~BlockCheckEmpty(m.f, m.erasing.block, m.erasing.block) THEN Wrong(m)
        ELSE IF m.erasing.gen = 0 THEN Formatted([m |-> m, ok |-> TRUE])
        ELSE Formatted(BlockFormat(m, m.erasing.block, m.erasing.gen + 1))

(***************************************************************************)
(* SpecSweep: the manager is initialized over a medium left by earlier     *)
(* use, and EraseBlocks sweeps the blocks marked for erasure while no      *)
(* other task touches the medium.  One programming step of a sweep may     *)
(* fail.                                                                   *)
(***************************************************************************)
MaxSweepOps == 8

SweepStep(m, op, fault) ==
    /\ Finish(m, op, erasing.block, Rec(0, <<fault>>, 0), FALSE, NoSpan, TRUE, 0)
    /\ UNCHANGED <<hist, issued>>

SweepInitialize ==
    \E reset \in BOOLEAN :
        ops < MaxSweepOps /\ erasing = NoErase /\ InitializeStep(reset, FALSE)
\* the collector awaits EraseBlocks
SweepStart ==
    /\ ops < MaxSweepOps /\ erasing = NoErase /\ blocksToErase
    /\ SweepStep(EraseBlocksScan(Machine(-1, "fault"), blkStart), "EraseBlocks", -1)
\* ErasePageAsync gives up after its timeout and EraseBlocks tries again
SweepInterrupted ==
    /\ ops < MaxSweepOps /\ erasing.phase = "await"
    /\ SweepStep(Machine(-1, "fault"), "Interrupted", -1)
SweepErase ==
    /\ ops < MaxSweepOps /\ erasing.phase = "await"
    /\ SweepStep(ErasePageAsyncDone(Machine(-1, "fault")), "Erase", -1)
SweepResume ==
    \E fault \in Faults :
        /\ ops < MaxSweepOps /\ erasing.phase = "done"
        /\ SweepStep(EraseBlocksErased([Machine(-1, "fault") EXCEPT !.fault = fault.at,
                                                                   !.junk = fault.junk]),
                     "Resume", fault.at)
NextSweep == SweepInitialize \/ SweepStart \/ SweepInterrupted \/ SweepErase \/ SweepResume
SpecSweep == InitBoot /\ [][NextSweep]_vars

\* the blocks marked for erasure at or above blk, and the words of a block
ErasableFrom(f, blk) == { b \in AllBlocks : b >= blk /\ BlockIsErasable(f, b) }
SameBlock(f, g, b) == \A i \in 0..(BlockSize \div 4 - 1) : WordAt(f, b + 4 * i) = WordAt(g, b + 4 * i)
\* where the sweep stands after it has gone on from block blk over medium f
SweepFrom(f, blk) ==
    IF ErasableFrom(f, blk) = {} THEN ~blocksToErase' /\ erasing' = NoErase
    ELSE /\ erasing'.phase = "await"
         /\ erasing'.block = (CHOOSE b \in ErasableFrom(f, blk) : \A c \in ErasableFrom(f, blk) : b <= c)
         /\ erasing'.gen = GenerationOf(f, erasing'.block)
         /\ blocksToErase' = blocksToErase

MaxReclaimOps == 6

ReclaimStep(m, op, id, page) ==
    /\ Finish(m, op, id, Rec(0, <<>>, 0), FALSE, [ptr |-> page, len |-> 0], page # NULL, 0)
    /\ hist' = hist
    /\ issued' = IF op = "New" /\ page # NULL THEN issued \cup {page} ELSE issued

ReclaimInitialize ==
    /\ ops < MaxReclaimOps /\ erasing = NoErase
    /\ ReclaimStep(Initialize(Machine(-1, "fault"), FALSE, FALSE).m, "Initialize", 0, NULL)
ReclaimNew ==
    \E id \in {65, 66} :
        LET Done(r) == ReclaimStep(r.m, "New", id, r.page)
        IN  /\ ops < MaxReclaimOps /\ erasing = NoErase /\ last.op # "Boot"
            /\ Done(NewPage(Machine(-1, "fault"), id, 0))
\* Manager::Collect or EraseAll hands a page of a used block to ErasePage
ReclaimErasePage ==
    \E p \in AllPages :
        /\ ops < MaxReclaimOps /\ erasing = NoErase /\ last.op # "Boot"
        /\ PageIsValid(flash, p) /\ BlockFromPtr(p) >= blkFirst
        /\ BlockIsValid(flash, BlockFromPtr(p))
        /\ ReclaimStep(ErasePage(Machine(-1, "fault"), p), "ErasePage", 0, p)
ReclaimStart ==
    /\ ops < MaxReclaimOps /\ erasing = NoErase /\ blocksToErase
    /\ ReclaimStep(EraseBlocksScan(Machine(-1, "fault"), blkStart), "EraseBlocks", 0, NULL)
ReclaimErase ==
    /\ erasing.phase = "await"
    /\ ReclaimStep(ErasePageAsyncDone(Machine(-1, "fault")), "Erase", 0, erasing.block)
ReclaimResume ==
    /\ erasing.phase = "done"
    /\ ReclaimStep(EraseBlocksErased(Machine(-1, "fault")), "Resume", 0, erasing.block)
NextReclaim ==
    \/ ReclaimInitialize \/ ReclaimNew \/ ReclaimErasePage
    \/ ReclaimStart \/ ReclaimErase \/ ReclaimResume
SpecReclaim == InitBoot /\ [][NextReclaim]_vars

\* the words of two media differ at most at the given addresses
SameExcept(f, g, ptrs) ==
    \A i \in 0..(FlashWords - 1) : 4 * i \notin ptrs => WordAt(f, 4 * i) = WordAt(g, 4 * i)

\* ErasePage(p) writes 0 to the id of p, and marks the block of p Erasable and sets
\* blocksToErase exactly when every page of the block is then erasable; it never marks a
\* block that holds a valid or an empty page
C32_ErasePageMarks ==
    [][last'.op = "ErasePage" =>
         LET p == last'.res.ptr
             b == BlockFromPtr(last'.res.ptr)
         IN  /\ PageIdOf(flash', p) = 0
             /\ IF \A q \in PagesOf(b) : PageIsErasable(flash', q)
                THEN /\ BlockIsErasable(flash', b) /\ blocksToErase'
                     /\ SameExcept(flash, flash', {p, b})
                ELSE /\ SameExcept(flash, flash', {p})
                     /\ blocksToErase' = blocksToErase]_vars

\* C32: ErasePage behaves as above, and the erase of a block never destroys a valid page
\* (no page that NewPage returned and that is still valid lies in a block being erased)
C32_EraseSparesValidPages ==
    /\ C32_ErasePageMarks
    /\ [][last'.op = "Erase" =>
            \A p \in PagesOf(erasing.block) : ~(p \in issued /\ PageIsValid(flash, p))]_vars

(***************************************************************************)
(* SpecHeader: pages are allocated on a medium left by earlier use while   *)
(* one programming step of each allocation may fail.  Power is never lost: *)
(* a call that does not return has faulted on memory it must not touch.    *)
(***************************************************************************)
MaxHeaderOps == 3

HeaderInitialize == ops < MaxHeaderOps /\ InitializeStep(FALSE, FALSE)
HeaderNew ==
    \E id \in {65, 66}, fault \in Faults, ub \in UBs :
        LET Done(r) ==
                /\ Finish(r.m, "New", id, Rec(0, <<fault.at>>, 0), FALSE, Span(r.page, 0),
                          r.page # NULL, 0)
                /\ UNCHANGED <<hist, issued>>
        IN  /\ ops < MaxHeaderOps /\ last.op # "Boot"
            /\ Done(NewPage([Machine(-1, ub) EXCEPT !.fault = fault.at, !.junk = fault.junk],
                            id, 0))
NextHeader == HeaderInitialize \/ HeaderNew
SpecHeader == InitBoot /\ [][NextHeader]_vars

\* the empty pages NewPage can still take: those of the valid blocks from blkFirst
EmptySlots(f, bf) ==
    { p \in AllPages : BlockFromPtr(p) >= bf /\ BlockIsValid(f, BlockFromPtr(p))
                           /\ PageIsEmpty(f, p) }

\* C33: NewPage with a failing header write stays inside the managed blocks (the call
\* returns), shreds the slot whose header it could not write and goes on, and returns
\* NULL only when no empty slot and no empty block is left
C33_HeaderFailureTolerated ==
    [][last'.op = "New" =>
         /\ ~last'.lost
         /\ last'.res.ptr = NULL =>
                /\ EmptySlots(flash', blkFirst') = {}
                /\ \A b \in AllBlocks : ~BlockIsEmpty(flash', b)
         /\ last'.res.ptr # NULL =>
                /\ PageIdOf(flash', last'.res.ptr) = last'.id
                /\ \A p \in AllPages :
                       (PageIsEmpty(flash, p) /\ WordAt(flash, p + 4) = AllOnes
                            /\ ~PageIsEmpty(flash', p) /\ p # last'.res.ptr)
                           => PageIsErasable(flash', p)]_vars

\* C34: when Initialize without IgnoreCorrupted returns, blocksToErase is set and the
\* collector is scheduled if any block is Erasable, and the collector is scheduled if
\* fewer than PagesKeptFree pages are available
C34_ErasableHandedOver ==
    [][(Initialized(last') /\ last'.rest[2] = FALSE) =>
         /\ (\E b \in AllBlocks : StateErasable(flash', b)) => (blocksToErase' /\ collecting')
         /\ ULT(pagesAvailable', PagesKeptFree) => collecting']_vars

(***************************************************************************)
(* SpecShift: records of several lengths, among them records that fill a   *)
(* page to its end, are added to pages of one id, pages are allocated, and *)
(* the records of one page are moved to another page of the id.            *)
(***************************************************************************)
MaxShiftOps == 4
ShiftPayloads == { Rec(1, <<7>>, 8), Rec(2, <<>>, 4), Rec(1, <<7, 9, 9, 9>>, 20) }
ShiftAdd ==
    \E var \in BOOLEAN, pl \in ShiftPayloads :
        ops < MaxShiftOps /\ AddStep(var, 65, pl, -1, "fault")
ShiftNew ==
    \E recordSize \in {0, 4, 8} :
        ops < MaxShiftOps /\ NewStep(65, recordSize, "fault")
ShiftMove ==
    \E src \in AllPages, p \in AllPages, limit \in {0, PagePayload \div 2} :
        /\ ops < MaxShiftOps
        /\ src # p /\ PageIsValid(flash, src) /\ PageIsValid(flash, p)
        /\ PageIdOf(flash, src) = PageIdOf(flash, p)
        /\ Finish(MoveRecords(Machine(-1, "fault"), src, p, limit).m, "MoveRecords",
                  limit, Rec(0, <<>>, 0), FALSE, Span(src, p),
                  MoveRecords(Machine(-1, "fault"), src, p, limit).res, 0)
        /\ UNCHANGED <<hist, issued>>
NextShift == ShiftAdd \/ ShiftNew \/ ShiftMove
SpecShift == Init /\ [][NextShift]_vars

\* the records Add has acknowledged that are on page p and not shredded
AddedOn(f, p) ==
    { i \in DOMAIN hist : PageFromPtr(hist[i].ptr) = p /\ FirstWord(f, hist[i].ptr) # 0 }
\* some record on page p holds the payload pl
CopyOn(f, p, pl) ==
    \E q \in { PageData(p) + 4 * k : k \in 0..(PagePayload \div 4 - 1) } :
        HoldsPayload(f, q, pl)

\* C35: MoveRecords(p, limit) on page src returns false and writes nothing when p has no
\* free slot or the simulation finds a record of src that does not fit; otherwise every
\* record that left src has a copy on p, and the call returns true iff every record of
\* src was moved
C35_SimulateThenCommit ==
    [][last'.op = "MoveRecords" =>
         LET src == last'.res.ptr
             p == last'.res.len
             free == FindFree(flash, last'.res.len)
             limit == last'.id
             Fits(fr) ==
                 /\ fr # NULL
                 /\ MoveFits(flash, src, p, NULL, fr,
                             IF limit # 0 /\ fr + limit < PageDataEnd(p)
                             THEN fr + limit ELSE PageDataEnd(p))
         IN  /\ ~Fits(free) => (~last'.ok /\ flash' = flash)
             /\ Fits(free) =>
                 /\ \A i \in AddedOn(flash, src) \ AddedOn(flash', src) :
                        CopyOn(flash', p, hist[i].pl)
                 /\ last'.ok <=> AddedOn(flash', src) = {}]_vars

(***************************************************************************)
(* SpecCount: from a freshly erased and initialized medium pages are       *)
(* allocated (one programming step of an allocation may fail), handed to   *)
(* ErasePage, and EraseBlocks sweeps the blocks marked for erasure; the    *)
(* manager may be initialized again between sweeps.                        *)
(***************************************************************************)
MaxCountOps == 5

CountStep(m, op, id, page, fault) ==
    /\ Finish(m, op, id, Rec(0, <<fault>>, 0), FALSE, Span(page, 0), page # NULL, 0)
    /\ UNCHANGED <<hist, issued>>

CountInitialize ==
    /\ ops < MaxCountOps /\ erasing = NoErase
    /\ CountStep(Initialize(Machine(-1, "scan"), FALSE, FALSE).m, "Initialize", 0, NULL, -1)
CountNew ==
    \E fault \in Faults :
        LET Done(r) == CountStep(r.m, "New", 65, r.page, fault.at)
        IN  /\ ops < MaxCountOps /\ erasing = NoErase
            /\ Done(NewPage([Machine(-1, "scan") EXCEPT !.fault = fault.at,
                                                       !.junk = fault.junk], 65, 0))
CountErasePage ==
    \E p \in AllPages :
        /\ ops < MaxCountOps /\ erasing = NoErase
        /\ PageIsValid(flash, p) /\ BlockFromPtr(p) >= blkFirst
        /\ BlockIsValid(flash, BlockFromPtr(p))
        /\ CountStep(ErasePage(Machine(-1, "scan"), p), "ErasePage", 0, p, -1)
CountStart ==
    /\ ops < MaxCountOps /\ erasing = NoErase /\ blocksToErase
    /\ CountStep(EraseBlocksScan(Machine(-1, "scan"), blkStart), "EraseBlocks", 0, NULL, -1)
CountErase ==
    /\ erasing.phase = "await"
    /\ CountStep(ErasePageAsyncDone(Machine(-1, "scan")), "Erase", 0, erasing.block, -1)
CountResume ==
    /\ erasing.phase = "done"
    /\ CountStep(EraseBlocksErased(Machine(-1, "scan")), "Resume", 0, erasing.block, -1)
NextCount ==
    \/ CountInitialize \/ CountNew \/ CountErasePage
    \/ CountStart \/ CountErase \/ CountResume
SpecCount == Init /\ [][NextCount]_vars

\* C36: whenever Initialize, NewPage, ErasePage or EraseBlocks has returned, pagesAvailable
\* is the number of empty pages in Valid blocks plus PagesPerBlock per Empty block; it is
\* never below zero and never above the number of pages of the medium
C36_CounterTracksMedium ==
    (last.op # "Boot" /\ erasing = NoErase) =>
        /\ pagesAvailable = FreePagesIn(flash, AllBlocks)
        /\ pagesAvailable >= 0 /\ pagesAvailable <= NumBlocks * PagesPerBlock

\* C37: once the manager is initialized, every Valid block lies at or above blkFirst
C37_ValidBlocksReachable ==
    last.op # "Boot" => \A b \in AllBlocks : StateValid(flash, b) => b >= blkFirst

(***************************************************************************)
(* SpecRace: as SpecReclaim, and other tasks allocate pages while          *)
(* EraseBlocks is suspended in Flash::ErasePageAsync: before the driver    *)
(* has erased the block, and between the erase and the resumption.         *)
(***************************************************************************)
RaceNew ==
    \E id \in {65, 66} :
        LET Done(r) == ReclaimStep(r.m, "New", id, r.page)
        IN  /\ ops < MaxReclaimOps /\ erasing # NoErase
            /\ Done(NewPage(Machine(-1, "fault"), id, 0))
NextRace ==
    \/ ReclaimInitialize \/ ReclaimNew \/ ReclaimStart \/ ReclaimErase \/ ReclaimResume
    \/ RaceNew
SpecRace == InitBoot /\ [][NextRace]_vars

\* C38: when EraseBlocks resumes after the erase of a block, every valid page that NewPage
\* has returned is still valid, and the header of its block is what it was (the block is
\* neither marked for erasure nor formatted again)
C38_NoEraseAllocationRace ==
    [][last'.op = "Resume" =>
         \A p \in issued :
             PageIsValid(flash, p) =>
                 /\ PageIsValid(flash', p)
                 /\ MagicOf(flash', BlockFromPtr(p)) = MagicOf(flash, BlockFromPtr(p))
                 /\ GenerationOf(flash', BlockFromPtr(p))
                        = GenerationOf(flash, BlockFromPtr(p))]_vars

(***************************************************************************)
(* CollectorRelocate (Manager.cpp) and SpecAge: keyed records are added to *)
(* pages of one id, pages are allocated, and CollectorRelocate is invoked  *)
(* for the id, as Manager::Collect invokes a registered collector.         *)
(***************************************************************************)
MaxAgeOps == 4
AgePayloads == { Rec(1, <<7>>, 8), Rec(1, <<9>>, 8), Rec(2, <<7>>, 8) }
AgeAdd ==
    \E var \in BOOLEAN, pl \in AgePayloads :
        ops < MaxAgeOps /\ AddStep(var, 65, pl, -1, "fault")
AgeNew ==
    \E recordSize \in {0, 8} :
        ops < MaxAgeOps /\ NewStep(65, recordSize, "fault")
AgeRelocate ==
    LET Done(r) ==
            /\ Finish(r.m, "Relocate", 65, Rec(0, <<>>, 0), FALSE, Span(r.page, 0),
                      r.page # NULL, 0)
            /\ UNCHANGED <<hist, issued>>
    IN  ops < MaxAgeOps /\ Done(CollectorRelocate(Machine(-1, "fault"), 65))
NextAge == AgeAdd \/ AgeNew \/ AgeRelocate
SpecAge == Init /\ [][NextAge]_vars

\* the bytes of the records an enumeration yields, in its order
Contents(f, enum) == [i \in DOMAIN enum |-> RecordWords(f, enum[i])]

\* C39: CollectorRelocate changes neither what the newest-first and the oldest-first
\* enumeration of a key yield nor their order; in particular FindNewestFirst and
\* FindOldestFirst return records with the bytes they returned before
C39_RelocationKeepsAgeOrder ==
    [][last'.op = "Relocate" =>
         \A K \in {1, 2} :
             /\ Contents(flash', EnumNewest(flash', blkFirst', 65, K))
                    = Contents(flash, EnumNewest(flash, blkFirst, 65, K))
             /\ Contents(flash', EnumOldest(flash', blkFirst', 65, K))
                    = Contents(flash, EnumOldest(flash, blkFirst, 65, K))]_vars

(***************************************************************************)
(* SpecKeep: keyed records are added to and deleted from pages of one id,  *)
(* pages are allocated, and a non-destructive pass Collect(false) runs     *)
(* with CollectorCleanup and CollectorRelocate registered for the id; the  *)
(* pass may lose power after any of its flash writes.                      *)
(***************************************************************************)
MaxKeepOps == 4
MaxKeepFuel == 10
KeepPayloads == { Rec(1, <<7>>, 8), Rec(2, <<>>, 4), Rec(2, <<7, 9, 9, 9>>, 20) }
KeepCollectors ==
    << [key |-> 65, level |-> 0, collector |-> "CollectorCleanup"],
       [key |-> 65, level |-> 0, collector |-> "CollectorRelocate"] >>
KeepAdd ==
    \E var \in BOOLEAN, pl \in KeepPayloads :
        ops < MaxKeepOps /\ AddStep(var, 65, pl, -1, "fault")
KeepNew ==
    \E recordSize \in {0, 8} :
        ops < MaxKeepOps /\ NewStep(65, recordSize, "fault")
KeepDelete ==
    \E key \in {1, 2} :
        ops < MaxKeepOps /\ DeleteStep(65, key, -1, "fault")
KeepCollect ==
    \E fuel \in {-1} \cup 1..MaxKeepFuel :
        LET Done(r) ==
                /\ fuel = -1 \/ Dead(r.m)
                /\ Finish(r.m, "Collect", 65, Rec(0, <<>>, 0), FALSE, NoSpan, TRUE,
                          r.collected)
                /\ UNCHANGED <<hist, issued>>
        IN  ops < MaxKeepOps /\ Done(Collect(Machine(fuel, "fault"), KeepCollectors, FALSE))
NextKeep == KeepAdd \/ KeepNew \/ KeepDelete \/ KeepCollect
SpecKeep == Init /\ [][NextKeep]_vars

\* the three enumerations of (id, key) over flash f
Findings(f, bf, id, key) ==
    Range(EnumUnordered(f, bf, id, key)) \cup Range(EnumOldest(f, bf, id, key))
        \cup Range(EnumNewest(f, bf, id, key))
\* every record findable in f is findable in g, with its first word and its bytes
Kept(f, bf, g, bg, id) ==
    \A K \in {1, 2} :
        \A r \in Findings(f, bf, id, K) :
            /\ \E s \in Range(EnumUnordered(g, bg, id, K)) :
                   HoldsPayload(g, s.ptr, Rec(WordAt(f, r.ptr), RestOf(f, r), r.len))
            /\ \E s \in Range(EnumOldest(g, bg, id, K)) :
                   HoldsPayload(g, s.ptr, Rec(WordAt(f, r.ptr), RestOf(f, r), r.len))
            /\ \E s \in Range(EnumNewest(g, bg, id, K)) :
                   HoldsPayload(g, s.ptr, Rec(WordAt(f, r.ptr), RestOf(f, r), r.len))

\* the records an Add returned that page p of flash f still holds with their bytes
StoredOn(f, p) ==
    { h \in Range(hist) : PageFromPtr(h.ptr) = p /\ HoldsPayload(f, h.ptr, h.pl) }

\* C40: a non-destructive pass with CollectorCleanup and CollectorRelocate keeps every
\* findable record findable with its first word and its bytes, at its end and at every
\* power loss after one of its flash writes; a page a level-0 collector hands to
\* ErasePage holds no record, and it is never the newest page of the id
C40_CollectionKeepsRecords ==
    [][last'.op = "Collect" =>
         /\ Kept(flash, blkFirst, flash', blkFirst', 65)
         /\ \A i \in DOMAIN last'.inv :
                last'.inv[i].page # NULL =>
                    /\ RecordsOn(last'.inv[i].g, last'.inv[i].page) = <<>>
                    /\ StoredOn(last'.inv[i].g, last'.inv[i].page) = {}
                    /\ last'.inv[i].page # NewestFirst(last'.inv[i].f, blkFirst, 65)
                    /\ last'.inv[i].page # NewestFirst(last'.inv[i].g, blkFirst, 65)]_vars

====
